---- MODULE Spec2Model ----
(***************************************************************************)
(* State-machine model of the download engine core of HelmerPartanen/IDM:  *)
(* segment planning (DownloadEngine.createSegments), the engine's command  *)
(* handlers and session callbacks (electron/download-engine/engine.ts),    *)
(* the segment fetcher (segment.ts), the queue manager (queue-manager.ts   *)
(* over the bundled p-queue) and the storage layer (electron/db/models).   *)
(***************************************************************************)
EXTENDS Integers, Sequences, FiniteSets, TLC

\* ------------------------------------------------------------------ bounds
\* Largest totalSize and thread count explored for segment planning.
MaxPlanSize == 12
MaxPlanThreads == 9

\* User commands (pause, resume, cancel, retry, remove, schedule, kill)
\* explored per run on a download that has the queue to itself.
MaxCmds == 2
\* User commands explored per run when two downloads share the queue.
MaxPairCmds == 1
\* Environment faults (network errors, failed file opens) explored per run.
MaxFaults == 1
\* Start sessions (settled ones with callbacks still to come included) alive
\* at a time.
MaxSess == 2
\* Auto-retry timers that fire per run.
MaxFires == 1
\* settings.maxConcurrentDownloads as explored (the queue's concurrency).
MaxConcurrent == 1
\* retryConfig.maxRetries as explored (withRetry's attempt limit).
FetchMaxRetries == 1
\* settings.maxRetries as explored (the queue manager's auto-retry limit).
AutoMaxRetries == 1

\* Queue admission on its own: enqueue calls explored per run and the largest
\* concurrency explored.
MaxEnqueues == 4
MaxQueueConcurrent == 2

\* withRetry on its own: the largest config.maxRetries explored.
MaxRetryLimit == 3

\* Auto-retry on its own: the largest settings.maxRetries explored, the steps
\* explored per run and the start sessions of an id alive at a time.
MaxAutoRetryLimit == 5
MaxAutoRetrySteps == 11
MaxAutoRetrySess == 1

\* Request chains on their own: the redirect answers explored per chain.
MaxRedirects == 12

\* The scheduler on its own: the times its schedule timer fires per run.
MaxSchedFires == 1

\* The progress pump on its own: the steps explored per run.
MaxPumpSteps == 8

\* The fetchers on their own: the steps explored per run, the writes one
\* fetcher has in flight at most, the body bytes one response sends at most.
MaxSegSteps == 11
MaxInflight == 2
MaxBody == 3
\* User commands explored on the queue slot.
MaxSlotCmds == 3
\* Body chunks of the response explored on the queue slot.
SlotBody == 2
\* speedLimit of the paced fetcher explored, in bytes per second.
BucketLimit == 2
\* Clock of the paced fetcher: its last tick (a tick is 1/speedLimit second).
MaxTicks == 5
\* Chunks the paced fetcher receives.
MaxChunks == 4

VARIABLES
  planIn,      \* segment planning: the (totalSize, threads) input
  planOut,     \* segment planning: the planned segments (<<>> before planning)
  db,          \* downloads table: id -> row (status "absent": no row)
  segs,        \* segments table: id -> rows ordered by segment_index
  schedules,   \* schedules table: the download ids that have a schedule row
  schedTimers, \* Scheduler.timers: the download ids with an armed schedule timer
  files,       \* filesystem: id -> the file at the download's savePath
  activeDownloads, \* DownloadEngine.activeDownloads: id -> session (0: none)
  sess,        \* start sessions: one per startDownload call past its guard
  cleanups,    \* id -> cleanupActiveDownload calls awaiting closeFile
  queue,       \* p-queue: the waiting tasks, in dequeue order
  retryCounts, \* QueueManager.retryCounts
  timers,      \* auto-retry timers armed by the download-error handler: their delays
  settings,    \* the settings view the engine and queue manager read
  env,         \* exploration budgets left: commands, faults, timer fires
  obs,         \* what the last step did: its command and status writes
  hist,        \* history kept for the properties
  pq,          \* queue admission on its own: the p-queue and its running tasks
  rt,          \* withRetry on its own: one run of a fetcher's start()
  ar,          \* auto-retry on its own: each id's status and start sessions
  pr,          \* a request chain on its own: the HEAD probe or a GET
  br,          \* the pipe server on its own: one connection and its frame
  sc,          \* the scheduler on its own: one schedule, its timer and watcher
  pp,          \* the progress pump on its own: its timer and the engine's events
  sg,          \* the fetchers of one download on their own, chunk by chunk
  ra,          \* resumeAll on its own: its loop over the paused downloads
  sl,          \* one queue slot on its own: the task that holds it and its connection
  tb           \* a paced fetcher's token bucket on its own, chunk by chunk

planVars == <<planIn, planOut>>
engineVars == <<db, segs, schedules, schedTimers, files, activeDownloads, sess, cleanups,
                queue, retryCounts, timers, settings, env, obs, hist>>
\* The variables of the components explored on their own.
sideVars == <<planIn, planOut, pq, rt, ar, pr, br, sc, pp, sg, ra, sl, tb>>
vars == <<planIn, planOut, db, segs, schedules, schedTimers, files, activeDownloads, sess,
          cleanups, queue, retryCounts, timers, settings, env, obs, hist, pq, rt, ar, pr, br, sc, pp, sg, ra, sl, tb>>

Min(a, b) == IF a <= b THEN a ELSE b

RemoveAt(seq, i) == SubSeq(seq, 1, i - 1) \o SubSeq(seq, i + 1, Len(seq))

RECURSIVE Pow(_, _)
Pow(b, e) == IF e = 0 THEN 1 ELSE b * Pow(b, e - 1)

\* Math.ceil(a / b) for positive integers.
CeilDiv(a, b) == (a + b - 1) \div b

\* ------------------------------------------------ segment planning (engine.ts)
\* DownloadEngine.createSegments: segmentSize = ceil(totalSize / threads);
\* segment i covers [i*segmentSize, min((i+1)*segmentSize - 1, totalSize - 1)].
createSegments(totalSize, threads) ==
  LET segmentSize == CeilDiv(totalSize, threads) IN
  [k \in 1..threads |->
     [index |-> k - 1,
      startByte |-> (k - 1) * segmentSize,
      endByte |-> Min(k * segmentSize - 1, totalSize - 1),
      downloadedBytes |-> 0,
      status |-> "pending"]]

\* ------------------------------------------------------------ the world
Ids == {"d1", "d2"}

\* The add requests explored, as the row addDownload builds from the probe
\* and the request. d1 is the download the commands are explored on: a
\* resumable one of known length with a checksum (multi-segment path) or a
\* non-resumable one (single connection). d2 is a small competitor for the
\* queue's slot.
Requests(id) ==
  IF id = "d1"
  THEN { [totalSize |-> 2, resumable |-> TRUE,  threads |-> 1, checksum |-> "match", priority |-> "normal"],
         [totalSize |-> 2, resumable |-> FALSE, threads |-> 1, checksum |-> "match", priority |-> "normal"] }
  ELSE { [totalSize |-> 1, resumable |-> TRUE,  threads |-> 1, checksum |-> "none",  priority |-> "high"] }

\* The downloads the user's commands are explored on.
Targets == {"d1"}

\* No downloads row for an id.
Absent ==
  [status |-> "absent", downloadedBytes |-> 0, totalSize |-> 0, resumable |-> FALSE,
   threads |-> 0, checksum |-> "none", priority |-> "normal", error |-> "none"]

NoFile == [exists |-> FALSE, size |-> 0, good |-> {}]

\* An unused session slot.
NoSess ==
  [pc |-> "free", id |-> "none", origin |-> "none", priority |-> "normal",
   slot |-> FALSE, isResume |-> FALSE, item |-> Absent,
   aStatus |-> "none", aDl |-> 0, segInfos |-> <<>>, afd |-> "none",
   fdOpen |-> FALSE, linked |-> FALSE, fetch |-> <<>>, stream |-> "none", rx |-> 0,
   sizeOk |-> FALSE, hashOk |-> FALSE]

\* cmd, id, pre: the command of the step and the status it found; trans: the
\* status changes written; ev: the engine events of the step; snap: the
\* fetchers' segments as a pause found them.
NoObs ==
  [cmd |-> "none", id |-> "none", pre |-> "none", trans |-> {}, ev |-> {}, snap |-> <<>>]

\* The state as one record, so that a handler's synchronous call chain is a
\* composition of operators on it.
World ==
  [db |-> db, segs |-> segs, schedules |-> schedules, schedTimers |-> schedTimers,
   files |-> files,
   activeDownloads |-> activeDownloads, sess |-> sess, cleanups |-> cleanups,
   queue |-> queue, retryCounts |-> retryCounts, timers |-> timers,
   settings |-> settings, env |-> env, obs |-> NoObs, hist |-> hist]

SessIds(w) == 1..Len(w.sess)

\* A session whose promise has settled, whose fetchers and stream are quiet
\* and which the activeDownloads map no longer holds can run no more code.
Quiet(w, s) ==
  /\ w.sess[s].pc = "end"
  /\ \A k \in 1..Len(w.sess[s].fetch) : w.sess[s].fetch[k].st \in {"done", "failed"}
  /\ w.sess[s].stream \in {"none", "closed"}
  /\ w.activeDownloads[w.sess[s].id] # s

RECURSIVE DropFree(_)
DropFree(q) ==
  IF q # <<>> /\ q[Len(q)].pc = "free" THEN DropFree(SubSeq(q, 1, Len(q) - 1)) ELSE q

Collect(w) ==
  LET freed == [s \in SessIds(w) |-> IF w.sess[s].pc # "free" /\ Quiet(w, s) THEN NoSess ELSE w.sess[s]]
  IN [w EXCEPT !.sess = DropFree(freed)]

\* The value a progress snapshot (getProgressUpdates) reports for an id: the
\* live item's downloadedBytes of its map entry; with no entry, none is
\* reported and the last one reported stands.
Snapshot(w, id) ==
  IF w.activeDownloads[id] # 0 THEN w.sess[w.activeDownloads[id]].aDl ELSE w.hist.snap[id]

Commit(w0) ==
  \E w \in {Collect(w0)} :
  /\ Len(w.sess) <= MaxSess
  /\ db' = w.db /\ segs' = w.segs /\ schedules' = w.schedules
  /\ schedTimers' = w.schedTimers /\ files' = w.files
  /\ activeDownloads' = w.activeDownloads /\ sess' = w.sess
  /\ cleanups' = w.cleanups /\ queue' = w.queue /\ retryCounts' = w.retryCounts
  /\ timers' = w.timers /\ settings' = w.settings /\ env' = w.env
  /\ obs' = w.obs
  /\ hist' = [w.hist EXCEPT !.snap = [id \in Ids |-> Snapshot(w, id)]]
  /\ UNCHANGED sideVars

\* ------------------------------------------------- storage (db/models.ts)
insertDownload(w, id, item) == [w EXCEPT !.db[id] = item]

\* A storage layer that writes the row whether or not it exists (an upsert in
\* place of the UPDATE).
updateDownloadUpsert(w, id, updates) ==
  LET old == w.db[id]
      new == [f \in DOMAIN old |-> IF f \in DOMAIN updates THEN updates[f] ELSE old[f]]
  IN [w EXCEPT !.db[id] = new]

\* UPDATE downloads SET ... WHERE id = ?  (no row: nothing changes)
updateDownload(w, id, updates) ==
  IF w.db[id].status = "absent" THEN w
  ELSE
    LET old == w.db[id]
        new == [f \in DOMAIN old |-> IF f \in DOMAIN updates THEN updates[f] ELSE old[f]]
        wrote == IF new.status # old.status THEN {<<old.status, new.status>>} ELSE {}
    IN [w EXCEPT !.db[id] = new, !.obs.trans = @ \cup wrote]

getDownload(w, id) == w.db[id]

\* DELETE FROM downloads WHERE id = ?  with ON DELETE CASCADE on segments
\* and schedules (foreign_keys = ON).
deleteDownload(w, id) ==
  IF w.db[id].status = "absent" THEN w
  ELSE [w EXCEPT !.db[id] = Absent, !.segs[id] = <<>>, !.schedules = @ \ {id}]

insertSegments(w, id, rows) == [w EXCEPT !.segs[id] = @ \o rows]

getSegments(w, id) == w.segs[id]

deleteSegments(w, id) == [w EXCEPT !.segs[id] = <<>>]

\* UPDATE segments SET ... WHERE download_id = ? AND segment_index = ?
updateSegment(w, id, index, updates) ==
  [w EXCEPT !.segs[id] =
     [k \in 1..Len(@) |->
        IF @[k].index = index
        THEN [f \in DOMAIN @[k] |-> IF f \in DOMAIN updates THEN updates[f] ELSE @[k][f]]
        ELSE @[k]]]

RECURSIVE bulkUpdateSegments(_, _, _)
bulkUpdateSegments(w, id, infos) ==
  IF infos = <<>> THEN w
  ELSE bulkUpdateSegments(
         updateSegment(w, id, Head(infos).index,
                       [downloadedBytes |-> Head(infos).downloadedBytes,
                        status |-> Head(infos).status]),
         id, Tail(infos))

\* --------------------------------------------- p-queue (out/main/index.js)
priorityToNumber(priority) ==
  CASE priority = "high" -> 2
    [] priority = "normal" -> 1
    [] priority = "low" -> 0
    [] OTHER -> 1

\* lowerBound(array, value, (a, b) => b.priority - a.priority): the binary
\* search of the bundle, on 0-based indices.
RECURSIVE lowerBoundLoop(_, _, _, _)
lowerBoundLoop(array, value, first, count) ==
  IF count <= 0 THEN first
  ELSE LET step == count \div 2
           it == first + step
       IN IF value.priority - array[it + 1].priority <= 0
          THEN lowerBoundLoop(array, value, it + 1, count - (step + 1))
          ELSE lowerBoundLoop(array, value, first, step)

lowerBound(array, value) == lowerBoundLoop(array, value, 0, Len(array))

\* A priority queue that ignores the priority (push only).
PQEnqueuePush(q, e) == Append(q, e)

\* PriorityQueue.enqueue: push when the tail's priority is >= the new one,
\* else splice the element in at lowerBound's index.
PQEnqueue(q, e) ==
  IF q = <<>> \/ q[Len(q)].priority >= e.priority THEN Append(q, e)
  ELSE LET index == lowerBound(q, e)
       IN SubSeq(q, 1, index) \o <<e>> \o SubSeq(q, index + 1, Len(q))

\* PQueue's count of running tasks: the sessions started by a queue task whose
\* startDownload promise has not settled.
Running(w) == Cardinality({s \in SessIds(w) : w.sess[s].slot})

\* ---------------------------------------- queue manager's event handlers
getActiveDownloadIds(w) == {id \in Ids : w.activeDownloads[id] # 0}

onDownloadComplete(w, id) == [w EXCEPT !.retryCounts[id] = 0]

\* A delay that does not level off at 60 s.
autoRetryDelayUncapped(retries) == 5000 * Pow(2, retries)

\* Math.min(5000 * Math.pow(2, retries), 60000)
autoRetryDelay(retries) == Min(5000 * Pow(2, retries), 60000)

\* download-error: with autoRetryFailed, arm a timer while retries < maxRetries
\* (settings.maxRetries || 3); at maxRetries, forget the count.
onDownloadError(w, id) ==
  IF ~w.settings.autoRetryFailed THEN w
  ELSE LET retries == w.retryCounts[id]
           maxRetries == IF w.settings.maxRetries = 0 THEN 3 ELSE w.settings.maxRetries
       IN IF retries < maxRetries
          THEN [w EXCEPT !.retryCounts[id] = retries + 1,
                         !.timers[id] = Append(@, autoRetryDelay(retries))]
          ELSE [w EXCEPT !.retryCounts[id] = 0]

onDownloadCancelled(w, id) == [w EXCEPT !.retryCounts[id] = 0]

\* ----------------------------------------------------- engine (engine.ts)
FreshSess(w) ==
  IF \E s \in SessIds(w) : w.sess[s].pc = "free"
  THEN CHOOSE s \in SessIds(w) :
         /\ w.sess[s].pc = "free"
         /\ \A r \in SessIds(w) : w.sess[r].pc = "free" => s <= r
  ELSE Len(w.sess) + 1

PutSess(w, s, rec) ==
  IF s = Len(w.sess) + 1 THEN [w EXCEPT !.sess = Append(@, rec)]
  ELSE [w EXCEPT !.sess[s] = rec]

\* DownloadEngine.setStatus: the live item of the id's map entry, then the row.
setStatus(w, id, status) ==
  LET s == w.activeDownloads[id]
      w1 == IF s # 0 THEN [w EXCEPT !.sess[s].aStatus = status] ELSE w
  IN updateDownload(w1, id, [status |-> status])

\* A cleanup that leaves the map entry and the fd alone.
cleanupNothing(w, id) == w

\* DownloadEngine.cleanupActiveDownload: with an fd, closeFile is awaited and
\* the map entry is deleted after it; without one it is deleted at once.
cleanupActiveDownload(w, id) ==
  LET s == w.activeDownloads[id] IN
  IF s = 0 THEN w
  ELSE IF w.sess[s].afd # "null"
       THEN [w EXCEPT !.sess[s].fdOpen = FALSE, !.cleanups[id] = @ + 1]
       ELSE [w EXCEPT !.activeDownloads[id] = 0]

\* startMultiSegmentDownload up to its first await (openFileForResume or
\* allocateFile): read or plan and insert the segment rows.
startMultiSegmentDownload(w, id, item, origin, priority) ==
  LET rows == getSegments(w, id)
      isResume == Len(rows) > 0
      segmentInfos == IF isResume THEN rows ELSE createSegments(item.totalSize, item.threads)
      w1 == IF isResume THEN w ELSE insertSegments(w, id, segmentInfos)
  IN PutSess(w1, FreshSess(w1),
       [NoSess EXCEPT !.pc = "open", !.id = id, !.origin = origin, !.priority = priority,
                      !.slot = (origin = "queue"), !.isResume = isResume, !.item = item,
                      !.segInfos = segmentInfos])

\* startSingleConnectionDownload up to the request: the ActiveDownload is
\* registered, the write stream created (truncating the file), the GET sent.
startSingleConnectionDownload(w, id, item, origin, priority) ==
  LET s == FreshSess(w)
      w1 == PutSess(w, s,
        [NoSess EXCEPT !.pc = "sreq", !.id = id, !.origin = origin, !.priority = priority,
                       !.slot = (origin = "queue"), !.item = item,
                       !.aStatus = "downloading", !.aDl = item.downloadedBytes,
                       !.afd = "null", !.linked = TRUE, !.stream = "open"])
  IN [w1 EXCEPT !.activeDownloads[id] = s,
                !.files[id] = [exists |-> TRUE, size |-> 0, good |-> {}]]

\* DownloadEngine.startDownload (the part before the path's first await).
startDownload(w, id, origin, priority) ==
  LET item == getDownload(w, id) IN
  IF item.status = "absent" \/ item.status = "downloading" THEN w
  ELSE LET w1 == setStatus(w, id, "downloading") IN
       IF item.resumable /\ item.totalSize > 0
       THEN startMultiSegmentDownload(w1, id, item, origin, priority)
       ELSE startSingleConnectionDownload(w1, id, item, origin, priority)

\* The task QueueManager.enqueue adds to the queue.
queueTask(w, id) ==
  LET current == getDownload(w, id) IN
  IF current.status \in {"absent", "completed", "error"} THEN w
  ELSE IF id \in getActiveDownloadIds(w) THEN w
  ELSE startDownload(w, id, "queue", current.priority)

\* PQueue tryToStartAnother, repeated as each task that returns at once
\* frees its slot (next): start waiting tasks while a slot is free.
RECURSIVE processQueue(_)
processQueue(w) ==
  IF w.queue = <<>> \/ Running(w) >= w.settings.maxConcurrentDownloads THEN w
  ELSE processQueue(queueTask([w EXCEPT !.queue = Tail(@)], Head(w.queue).id))

\* QueueManager.enqueue
enqueue(w, id, priority) ==
  IF id \in getActiveDownloadIds(w) THEN w
  ELSE
    LET w1 == IF getDownload(w, id).status = "pending"
              THEN updateDownload(w, id, [status |-> "queued"]) ELSE w
    IN processQueue([w1 EXCEPT !.queue =
                       PQEnqueue(@, [id |-> id, priority |-> priorityToNumber(priority)])])

\* startDownload's promise settles: a queue task frees its slot; the retry
\* handlers (IPC retry, auto-retry timer) go on to enqueue the id.
settle(w, s) ==
  LET w1 == [w EXCEPT !.sess[s].pc = "end", !.sess[s].slot = FALSE] IN
  IF w.sess[s].origin = "queue" THEN processQueue(w1)
  ELSE enqueue(w1, w.sess[s].id, w.sess[s].priority)

\* startDownload's catch: status error, emit download-error, clean up.
startCatch(w, s) ==
  LET id == w.sess[s].id
      w1 == setStatus(w, id, "error")
      w2 == updateDownload(w1, id, [error |-> "failed", status |-> "error"])
      w3 == onDownloadError([w2 EXCEPT !.obs.ev = @ \cup {<<"error", id>>}], id)
  IN settle(cleanupActiveDownload(w3, id), s)

\* startMultiSegmentDownload's catch: close the fd if there is one, rethrow.
sessionCatch(w, s) ==
  IF w.sess[s].afd # "null"
  THEN [w EXCEPT !.sess[s].pc = "failclosing", !.sess[s].fdOpen = FALSE]
  ELSE startCatch(w, s)

\* What a completion found: the checks the session had passed and the file.
Completion(w, s, path) ==
  LET id == w.sess[s].id
      item == w.sess[s].item IN
  [id |-> id, path |-> path, checksum |-> item.checksum,
   sizeOk |-> w.sess[s].sizeOk, hashOk |-> w.sess[s].hashOk,
   whole |-> /\ w.files[id].exists
             /\ w.files[id].size = item.totalSize
             /\ w.files[id].good = 0..(item.totalSize - 1)]

\* startMultiSegmentDownload "Mark complete".
markComplete(w, s) ==
  LET id == w.sess[s].id
      w1 == updateDownload(w, id, [status |-> "completed",
                                   downloadedBytes |-> w.sess[s].item.totalSize])
      w2 == [w1 EXCEPT !.sess[s].aStatus = "completed",
                       !.obs.ev = @ \cup {<<"complete", id>>},
                       !.hist.completions = @ \cup {Completion(w, s, "multi")}]
      w3 == onDownloadComplete(setStatus(w2, id, "completed"), id)
  IN settle([w3 EXCEPT !.activeDownloads[id] = 0], s)

\* After Promise.all(segmentPromises) resolves: return when the live status
\* is no longer downloading, else close the fd (closeFile rejects on an fd a
\* cleanup has closed already).
afterAll(w, s) ==
  IF w.sess[s].aStatus # "downloading" THEN settle(w, s)
  ELSE IF ~w.sess[s].fdOpen THEN sessionCatch(w, s)
  ELSE [w EXCEPT !.sess[s].pc = "closing"]

\* Promise.all over the fetchers' promises: rejects with the first rejection,
\* resolves when all have resolved.
checkAll(w, s) ==
  LET f == w.sess[s].fetch IN
  IF w.sess[s].pc # "run" THEN w
  ELSE IF \E k \in 1..Len(f) : f[k].st = "failed" THEN sessionCatch(w, s)
  ELSE IF \A k \in 1..Len(f) : f[k].st = "done" THEN afterAll(w, s)
  ELSE w

\* The engine's 'complete' listener of a fetcher.
onSegmentComplete(w, s, index) ==
  LET w1 == [w EXCEPT !.sess[s].segInfos[index + 1].status = "completed",
                      !.obs.ev = @ \cup {<<"segment-complete", w.sess[s].id>>}] IN
  updateSegment(w1, w.sess[s].id, index,
                [status |-> "completed",
                 downloadedBytes |-> w.sess[s].segInfos[index + 1].downloadedBytes])

\* The engine's 'progress' listener of a fetcher.
onSegmentProgress(w, s, index, bytesDownloaded, chunkSize) ==
  [w EXCEPT !.sess[s].aDl = @ + chunkSize,
            !.sess[s].segInfos[index + 1].downloadedBytes = bytesDownloaded,
            !.sess[s].segInfos[index + 1].status = "active"]

\* ------------------------------------------------- fetcher (segment.ts)
\* SegmentDownloader.downloadSegment up to the request: resolve when paused or
\* cancelled, complete when nothing is left of the range, else send the GET.
downloadSegment(w, s, k) ==
  LET f == w.sess[s].fetch[k] IN
  IF f.paused \/ f.cancelled THEN [w EXCEPT !.sess[s].fetch[k].st = "done"]
  ELSE IF f.startByte + f.downloadedBytes > f.endByte
       THEN onSegmentComplete(
              [w EXCEPT !.sess[s].fetch[k].status = "completed", !.sess[s].fetch[k].st = "done"],
              s, f.index)
       ELSE [w EXCEPT !.sess[s].fetch[k].status = "active", !.sess[s].fetch[k].st = "req"]

\* withRetry's catch: throw on the last attempt, else sleep and try again
\* (connection errors and write errors are retryable by isRetryableError).
withRetryCatch(w, s, k) ==
  IF w.sess[s].fetch[k].attempt >= FetchMaxRetries
  THEN [w EXCEPT !.sess[s].fetch[k].st = "failed"]
  ELSE [w EXCEPT !.sess[s].fetch[k].st = "sleep", !.sess[s].fetch[k].attempt = @ + 1]

\* new SegmentDownloader(segInfo, ...): its own copy of the segment.
NewFetcher(seg) ==
  [index |-> seg.index, startByte |-> seg.startByte, endByte |-> seg.endByte,
   downloadedBytes |-> seg.downloadedBytes, status |-> seg.status,
   paused |-> FALSE, cancelled |-> FALSE, st |-> "new", attempt |-> 0]

RECURSIVE startFetchers(_, _, _)
startFetchers(w, s, k) ==
  IF k > Len(w.sess[s].fetch) THEN w
  ELSE startFetchers(downloadSegment(w, s, k), s, k + 1)

RECURSIVE SumDl(_)
SumDl(q) == IF q = <<>> THEN 0 ELSE Head(q).downloadedBytes + SumDl(Tail(q))

Incomplete(seg) == seg.status # "completed"

\* startMultiSegmentDownload after the file is open: build the ActiveDownload,
\* register it, create and start one fetcher per incomplete segment.
registerActive(w, s) ==
  LET id == w.sess[s].id
      infos == w.sess[s].segInfos
      incompleteSegments == SelectSeq(infos, Incomplete)
      w1 == [w EXCEPT !.sess[s].pc = "run", !.sess[s].aStatus = "downloading",
                      !.sess[s].afd = "fd", !.sess[s].fdOpen = TRUE, !.sess[s].linked = TRUE,
                      !.sess[s].aDl = SumDl(infos),
                      !.sess[s].fetch = [k \in 1..Len(incompleteSegments) |->
                                           NewFetcher(incompleteSegments[k])],
                      !.activeDownloads[id] = s]
  IN checkAll(startFetchers(w1, s, 1), s)

\* ----------------------------------------------- steps of a running session
Live(s) == s \in 1..Len(sess) /\ sess[s].pc # "free"

\* openFileForResume / allocateFile returns. A resume needs the file to be
\* there; allocateFile creates or truncates it and sizes it to totalSize.
OpenDone(s) ==
  /\ Live(s) /\ sess[s].pc = "open"
  /\ LET w == World
         id == sess[s].id
     IN IF sess[s].isResume
        THEN IF files[id].exists THEN Commit(registerActive(w, s))
             ELSE Commit(startCatch(w, s))
        ELSE Commit(registerActive(
               [w EXCEPT !.files[id] = [exists |-> TRUE, size |-> sess[s].item.totalSize,
                                        good |-> {}]], s))

\* allocateFile / openFileForResume fails (ENOSPC, EACCES, ...).
OpenFail(s) ==
  /\ Live(s) /\ sess[s].pc = "open" /\ env.faults > 0
  /\ Commit(startCatch([World EXCEPT !.env.faults = @ - 1], s))

\* A body chunk (one byte) arrives at fetcher k. Paused or cancelled: the
\* data handler destroys the response and resolves. Else the chunk is written
\* at startByte + downloadedBytes and progress is emitted; a write on a closed
\* fd rejects the attempt.
FetchData(s, k) ==
  /\ Live(s) /\ k \in 1..Len(sess[s].fetch)
  /\ LET f == sess[s].fetch[k]
         id == sess[s].id
         w == World
         at == f.startByte + f.downloadedBytes
     IN /\ f.st = "req"
        /\ IF f.paused \/ f.cancelled
           THEN Commit(checkAll([w EXCEPT !.sess[s].fetch[k].st = "done"], s))
           ELSE /\ at <= f.endByte
                /\ IF sess[s].fdOpen
                   THEN LET w1 == IF sess[s].linked /\ at < files[id].size
                                  THEN [w EXCEPT !.files[id].good = @ \cup {at}] ELSE w
                            w2 == [w1 EXCEPT !.sess[s].fetch[k].downloadedBytes = @ + 1]
                        IN Commit(onSegmentProgress(w2, s, f.index, f.downloadedBytes + 1, 1))
                   ELSE Commit(checkAll(withRetryCatch(w, s, k), s))

\* The response of fetcher k ends after the whole range was sent.
FetchEnd(s, k) ==
  /\ Live(s) /\ k \in 1..Len(sess[s].fetch)
  /\ LET f == sess[s].fetch[k]
         w == World
     IN /\ f.st = "req"
        /\ f.startByte + f.downloadedBytes > f.endByte
        /\ IF f.paused \/ f.cancelled
           THEN Commit(checkAll([w EXCEPT !.sess[s].fetch[k].st = "done"], s))
           ELSE Commit(checkAll(
                  onSegmentComplete(
                    [w EXCEPT !.sess[s].fetch[k].status = "completed",
                              !.sess[s].fetch[k].st = "done"], s, f.index), s))

\* The request or response of fetcher k errors: a network fault, or the
\* ECONNRESET that follows the request's destruction by pause() or cancel().
FetchError(s, k) ==
  /\ Live(s) /\ k \in 1..Len(sess[s].fetch)
  /\ LET f == sess[s].fetch[k]
         aborted == f.paused \/ f.cancelled
         w == IF aborted THEN World ELSE [World EXCEPT !.env.faults = @ - 1]
     IN /\ f.st = "req"
        /\ aborted \/ env.faults > 0
        /\ Commit(checkAll(withRetryCatch(w, s, k), s))

\* withRetry's sleep ends: the next attempt.
FetchWake(s, k) ==
  /\ Live(s) /\ k \in 1..Len(sess[s].fetch)
  /\ sess[s].fetch[k].st = "sleep"
  /\ Commit(checkAll(downloadSegment(World, s, k), s))

\* closeFile(fd) returns on the completion path.
CloseDone(s) ==
  /\ Live(s) /\ sess[s].pc = "closing"
  /\ Commit([World EXCEPT !.sess[s].pc = "vsize", !.sess[s].afd = "null",
                          !.sess[s].fdOpen = FALSE])

\* The content hash of the file at savePath equals the checksum given.
HashMatches(w, id, item) ==
  /\ item.checksum = "match"
  /\ w.files[id].size = item.totalSize
  /\ w.files[id].good = 0..(item.totalSize - 1)

\* verifyFileSize returns: stat fails or the size differs -> throw; else, with
\* a checksum, status verifying and the hash is computed; else mark complete.
VerifySize(s) ==
  /\ Live(s) /\ sess[s].pc = "vsize"
  /\ LET w == World
         id == sess[s].id
         item == sess[s].item
     IN IF ~(files[id].exists /\ files[id].size = item.totalSize)
        THEN Commit(sessionCatch(w, s))
        ELSE LET w1 == [w EXCEPT !.sess[s].sizeOk = TRUE] IN
             IF item.checksum # "none"
             THEN Commit([setStatus(w1, id, "verifying") EXCEPT !.sess[s].pc = "hash"])
             ELSE Commit(markComplete(w1, s))

\* computeFileHash returns (or rejects when the file cannot be read).
HashDone(s) ==
  /\ Live(s) /\ sess[s].pc = "hash"
  /\ LET w == World
         id == sess[s].id
     IN IF files[id].exists /\ HashMatches(w, id, sess[s].item)
        THEN Commit(markComplete([w EXCEPT !.sess[s].hashOk = TRUE], s))
        ELSE Commit(sessionCatch(w, s))

\* closeFile in startMultiSegmentDownload's catch returns; the error reaches
\* startDownload's catch.
FailCloseDone(s) ==
  /\ Live(s) /\ sess[s].pc = "failclosing"
  /\ Commit(startCatch(World, s))

\* cleanupActiveDownload resumes after closeFile: activeDownloads.delete(id).
CleanupDone(id) ==
  /\ cleanups[id] > 0
  /\ Commit([World EXCEPT !.cleanups[id] = @ - 1, !.activeDownloads[id] = 0])

\* ------------------------------------ single-connection session's callbacks
\* writeStream 'finish': the download is marked completed.
onFinish(w, s) ==
  LET id == w.sess[s].id
      w1 == updateDownload(w, id,
              [status |-> "completed", downloadedBytes |-> w.sess[s].aDl,
               totalSize |-> IF w.sess[s].item.totalSize # 0
                             THEN w.sess[s].item.totalSize ELSE w.sess[s].aDl])
      w2 == [w1 EXCEPT !.sess[s].aStatus = "completed", !.sess[s].stream = "closed",
                       !.obs.ev = @ \cup {<<"complete", id>>},
                       !.hist.completions = @ \cup {Completion(w, s, "single")}]
      w3 == onDownloadComplete(setStatus(w2, id, "completed"), id)
      w4 == [w3 EXCEPT !.activeDownloads[id] = 0]
  IN IF w.sess[s].pc = "end" THEN w4 ELSE settle(w4, s)

\* The response arrives with status 200.
SResponse(s) ==
  /\ Live(s) /\ sess[s].pc = "sreq"
  /\ Commit([World EXCEPT !.sess[s].pc = "sstream"])

\* The request errors or times out, or the status is not 200: reject.
SFail(s) ==
  /\ Live(s) /\ sess[s].pc \in {"sreq", "sstream"} /\ sess[s].stream = "open"
  /\ env.faults > 0
  /\ Commit(startCatch([World EXCEPT !.env.faults = @ - 1, !.sess[s].stream = "closed"], s))

\* A body chunk (one byte) arrives. The data handler ends the transfer when
\* the live status is no longer downloading; else it counts the chunk, which
\* the pipe appends to the file.
SData(s) ==
  /\ Live(s) /\ sess[s].stream = "open" /\ sess[s].pc \in {"sstream", "end"}
  /\ sess[s].rx < sess[s].item.totalSize
  /\ LET w == World
         id == sess[s].id
     IN IF sess[s].aStatus # "downloading"
        THEN LET w1 == [w EXCEPT !.sess[s].stream = "ending"] IN
             Commit(IF sess[s].pc = "end" THEN w1 ELSE settle(w1, s))
        ELSE LET w1 == IF sess[s].linked
                       THEN [w EXCEPT !.files[id].size = @ + 1,
                                      !.files[id].good = @ \cup {files[id].size}]
                       ELSE w
             IN Commit([w1 EXCEPT !.sess[s].aDl = @ + 1, !.sess[s].rx = @ + 1])

\* The response ends, after the whole body or (a fault) short of it; the
\* pipe ends the write stream, which finishes.
SEnd(s) ==
  /\ Live(s) /\ sess[s].stream = "open" /\ sess[s].pc \in {"sstream", "end"}
  /\ IF sess[s].rx >= sess[s].item.totalSize
     THEN Commit(onFinish(World, s))
     ELSE /\ env.faults > 0
          /\ Commit(onFinish([World EXCEPT !.env.faults = @ - 1], s))

\* After the data handler ended the write stream: 'finish' is emitted, or the
\* stream is destroyed first by the pipe's write after end.
SFinishLate(s) ==
  /\ Live(s) /\ sess[s].stream = "ending"
  /\ \/ Commit(onFinish(World, s))
     \/ Commit([World EXCEPT !.sess[s].stream = "closed"])

\* ------------------------------------------- engine commands (engine.ts)
\* SegmentDownloader.segmentInfo: the fetcher's copy of its segment.
segmentInfo(f) ==
  [index |-> f.index, startByte |-> f.startByte, endByte |-> f.endByte,
   downloadedBytes |-> f.downloadedBytes, status |-> f.status]

\* seg.pause() / seg.cancel() on every fetcher of a session.
pauseFetchers(w, s) ==
  [w EXCEPT !.sess[s].fetch =
     [k \in 1..Len(w.sess[s].fetch) |->
        [w.sess[s].fetch[k] EXCEPT !.paused = TRUE, !.status = "paused"]]]

cancelFetchers(w, s) ==
  [w EXCEPT !.sess[s].fetch =
     [k \in 1..Len(w.sess[s].fetch) |-> [w.sess[s].fetch[k] EXCEPT !.cancelled = TRUE]]]

\* DownloadEngine.pauseDownload. The bulk persist looks a segment's fetcher up
\* by position in active.segments (find((_, i) => i === s.index)).
pauseDownload(w, id) ==
  LET s == w.activeDownloads[id] IN
  IF s = 0 THEN w
  ELSE
    LET w1 == pauseFetchers(w, s)
        w2 == updateDownload(w1, id, [downloadedBytes |-> w1.sess[s].aDl, status |-> "paused"])
        infos == w2.sess[s].segInfos
        fetch == w2.sess[s].fetch
        batch == [j \in 1..Len(infos) |->
                    IF infos[j].index + 1 \in 1..Len(fetch)
                    THEN segmentInfo(fetch[infos[j].index + 1]) ELSE infos[j]]
        w3 == IF Len(infos) > 0 THEN bulkUpdateSegments(w2, id, batch) ELSE w2
    IN cleanupActiveDownload(setStatus(w3, id, "paused"), id)

\* fs.unlinkSync(savePath): the path is gone; open descriptors keep the inode.
unlink(w, id) ==
  [w EXCEPT !.files[id] = NoFile,
            !.sess = [s \in 1..Len(w.sess) |->
                        IF w.sess[s].id = id THEN [w.sess[s] EXCEPT !.linked = FALSE]
                        ELSE w.sess[s]]]

\* DownloadEngine.cancelDownload
cancelDownload(w, id) ==
  LET s == w.activeDownloads[id]
      w1 == IF s # 0 THEN cleanupActiveDownload(cancelFetchers(w, s), id) ELSE w
      w2 == IF getDownload(w1, id).status # "absent" /\ w1.files[id].exists
            THEN unlink(w1, id) ELSE w1
      w3 == setStatus(w2, id, "error")
      w4 == updateDownload(w3, id, [status |-> "error", error |-> "Cancelled by user"])
  IN onDownloadCancelled(w4, id)

\* DownloadEngine.retryDownload up to startDownload's first await.
retryDownload(w, id, origin, priority) ==
  IF getDownload(w, id).status = "absent" THEN w
  ELSE
    LET w1 == updateDownload(w, id, [downloadedBytes |-> 0, status |-> "pending",
                                     error |-> "none"])
    IN startDownload(deleteSegments(w1, id), id, origin, priority)

\* DownloadEngine.removeDownload
removeDownload(w, id) ==
  LET s == w.activeDownloads[id]
      w1 == IF s # 0 THEN cleanupActiveDownload(cancelFetchers(w, s), id) ELSE w
  IN deleteDownload(deleteSegments(w1, id), id)

\* DownloadEngine.addDownload after the probe: the row is inserted pending.
addDownload(w, id, request) ==
  insertDownload(w, id,
    [status |-> "pending", downloadedBytes |-> 0, totalSize |-> request.totalSize,
     resumable |-> request.resumable, threads |-> request.threads,
     checksum |-> request.checksum, priority |-> request.priority, error |-> "none"])

\* ------------------------------- the command surface (download-handlers.ts)
Command(w, cmd, id) ==
  [w EXCEPT !.env.cmds = @ - 1,
            !.obs = [NoObs EXCEPT !.cmd = cmd, !.id = id, !.pre = w.db[id].status],
            !.hist.cancelled = IF cmd = "cancel" THEN @ \cup {id} ELSE @ \ {id},
            !.hist.held = @ \ {id},
            !.hist.snap[id] = IF cmd \in {"retry", "remove"} THEN 0 ELSE @,
            !.hist.kr[id] = IF cmd = "resume" THEN (IF @ = "killed" THEN "resumed" ELSE @)
                            ELSE "void"]

Known(id) == id \in Targets /\ db[id].status # "absent" /\ env.cmds > 0

\* download:add -> engine.addDownload, then queueManager.enqueue.
IpcAdd(id, request) ==
  /\ id \in env.ids /\ db[id].status = "absent" /\ id \notin hist.removed
  /\ LET w == [World EXCEPT !.obs = [NoObs EXCEPT !.cmd = "add", !.id = id, !.pre = "absent"]]
     IN Commit(enqueue(addDownload(w, id, request), id, request.priority))

\* download:pause
IpcPause(id) ==
  /\ Known(id)
  /\ LET w == Command(World, "pause", id)
         s == activeDownloads[id]
         w1 == pauseDownload(
                 [w EXCEPT !.obs.snap = IF s = 0 THEN <<>>
                                        ELSE [k \in 1..Len(sess[s].fetch) |->
                                                segmentInfo(sess[s].fetch[k])]],
                 id)
     IN Commit([w1 EXCEPT !.hist.held = IF w1.db[id].status = "paused"
                                        THEN @ \cup {id} ELSE @])

\* download:resume -> queueManager.enqueue(id, stored priority)
IpcResume(id) ==
  /\ Known(id)
  /\ Commit(enqueue(Command(World, "resume", id), id, db[id].priority))

\* download:cancel
IpcCancel(id) ==
  /\ Known(id)
  /\ Commit(cancelDownload(Command(World, "cancel", id), id))

\* download:retry -> engine.retryDownload, then (once it returns)
\* queueManager.enqueue(id) with the default priority.
IpcRetry(id) ==
  /\ Known(id)
  /\ Commit(retryDownload(Command(World, "retry", id), id, "retry", "normal"))

\* download:remove
IpcRemove(id) ==
  /\ Known(id)
  /\ Commit(removeDownload(
       [Command(World, "remove", id) EXCEPT !.hist.removed = @ \cup {id}], id))

\* The auto-retry timer armed by the download-error handler fires.
TimerFire(id) ==
  /\ env.fires > 0
  /\ \E i \in 1..Len(timers[id]) :
     LET w == [World EXCEPT !.timers[id] = RemoveAt(@, i), !.env.fires = @ - 1]
         item == db[id]
     IN IF item.status = "error"
        THEN Commit(retryDownload(
               [w EXCEPT !.hist.cancelled = @ \ {id}, !.hist.kr[id] = "void",
                         !.hist.snap[id] = 0,
                         !.obs = [NoObs EXCEPT !.cmd = "autoretry", !.id = id,
                                               !.pre = item.status]],
               id, "autoretry", item.priority))
        ELSE Commit(w)

\* schedule:add -> Scheduler.addSchedule: insert the row (the foreign key
\* needs the download's row) and arm the timer.
insertSchedule(w, id) == [w EXCEPT !.schedules = @ \cup {id}]

IpcScheduleAdd(id) ==
  /\ Known(id) /\ id \notin schedules
  /\ LET w == [World EXCEPT !.env.cmds = @ - 1,
                            !.obs = [NoObs EXCEPT !.cmd = "schedule", !.id = id,
                                                  !.pre = db[id].status]]
     IN Commit([insertSchedule(w, id) EXCEPT !.schedTimers = @ \cup {id}])

\* A schedule timer fires: queueManager.enqueue(downloadId).
ScheduleFire(id) ==
  /\ id \in schedTimers
  /\ Commit(enqueue([World EXCEPT !.schedTimers = @ \ {id},
                                  !.hist.cancelled = @ \ {id},
                                  !.hist.held = @ \ {id}], id, "normal"))

\* The process is killed and started again: the tables and the files stay,
\* everything in memory is lost. At start nothing is resumed; the scheduler
\* arms a timer per stored schedule (main.ts).
InProgress(id) ==
  /\ db[id].resumable /\ db[id].totalSize > 0
  /\ \E s \in 1..Len(sess) :
       sess[s].id = id /\ sess[s].pc \in {"open", "run", "closing", "vsize", "hash"}

Kill ==
  /\ env.cmds > 0
  /\ \E id \in Ids : db[id].status # "absent"
  /\ Commit([World EXCEPT
       !.env.cmds = @ - 1,
       !.obs = [NoObs EXCEPT !.cmd = "kill"],
       !.sess = <<>>,
       !.activeDownloads = [id \in Ids |-> 0],
       !.cleanups = [id \in Ids |-> 0],
       !.queue = <<>>,
       !.retryCounts = [id \in Ids |-> 0],
       !.timers = [id \in Ids |-> <<>>],
       !.schedTimers = schedules,
       !.hist.cancelled = {},
       !.hist.held = {},
       !.hist.kr = [id \in Ids |->
                      IF hist.kr[id] \in {"none", "resumed"} /\ InProgress(id)
                      THEN "killed" ELSE IF hist.kr[id] = "none" THEN "none" ELSE "void"]])

\* ----------------------------------------------------------- specification
PlanIdle == planIn = [totalSize |-> 1, threads |-> 1] /\ planOut = <<>>

QueueIdle ==
  pq = [queue |-> <<>>, pending |-> {}, n |-> 0, starts |-> {}, paused |-> FALSE,
        priority |-> [id \in {"q1", "q2", "q3"} |-> -1]]

\* The pipe server on its own, before a frame arrives: the connection is open.
NoTask == [id |-> "none", priority |-> 0, n |-> 0]
NoBridge ==
  [pc |-> "idle", conn |-> "open", replies |-> <<>>, task |-> NoTask,
   server |-> "null", listening |-> FALSE, endpoint |-> "free", spc |-> "new"]
BridgeIdle == br = NoBridge

\* No response and no error (the values before the first attempt fails).
NoHeader == [form |-> "none", v |-> 0]
NoResponse == [statusCode |-> 0, retryAfter |-> NoHeader]
NoError == [code |-> "none", statusCode |-> 0, message |-> "none", hasResponse |-> FALSE,
            response |-> NoResponse]
DEFAULT_RETRY_CONFIG ==
  [maxRetries |-> 5, initialDelay |-> 1000, maxDelay |-> 30000, backoffFactor |-> 2,
   jitter |-> TRUE]

RetryIdle ==
  rt = [pc |-> "idle", cfg |-> DEFAULT_RETRY_CONFIG, attempt |-> 0, calls |-> 0,
        delays |-> <<>>, rand |-> <<>>, lastError |-> NoError, lastResponse |-> NoResponse,
        thrown |-> NoError]

\* Auto-retry on its own, before its run: no download known. cancelled marks
\* a download the user cancelled and has given no command since.
NoLast == [id |-> "none", armed |-> 0, delay |-> 0, since |-> 0, run |-> 0]
AutoRetryIdle ==
  ar = [status |-> [id \in Ids |-> "absent"], inflight |-> [id \in Ids |-> 0],
        since |-> [id \in Ids |-> 0], run |-> [id \in Ids |-> 0],
        last |-> NoLast, cancelled |-> [id \in Ids |-> FALSE], steps |-> 0]

\* A request chain on its own, before its run.
NoAnswer == [statusCode |-> 0, contentLength |-> 0, acceptRanges |-> "absent"]
FailOpen == [totalSize |-> 0, supportsRange |-> FALSE]
NoItem == [totalSize |-> 0, resumable |-> FALSE, threads |-> 0]
ProbeIdle ==
  pr = [kind |-> "none", pc |-> "idle", redirectCount |-> 0, requests |-> 0,
        res |-> NoAnswer, result |-> FailOpen, item |-> NoItem, path |-> "none"]

\* The scheduler on its own, before its run: no schedule.
NoSchedule == [scheduledTime |-> 0, repeat |-> "none", autoShutdown |-> FALSE]
NoSet == [scheduledTime |-> 0, repeat |-> "none", now |-> 0, delay |-> -1]
NoSched ==
  [pc |-> "idle", now |-> 0, schedule |-> NoSchedule, timer |-> -1, set |-> NoSet,
   fires |-> 0, watcher |-> FALSE, shutdownTimer |-> "null", status |-> "pending",
   cancelled |-> FALSE, shutdowns |-> 0, atCancel |-> 0, removed |-> FALSE, atRemove |-> 0]
SchedIdle == sc = NoSched

\* resumeAll on its own: no download, nothing queued, not called.
NoResumeAll ==
  [queue |-> <<>>, pending |-> {}, paused |-> FALSE, starts |-> {}, n |-> 0,
   status |-> [id \in {"q1", "q2", "q3"} |-> "none"],
   priority |-> [id \in {"q1", "q2", "q3"} |-> "normal"],
   called |-> FALSE, returned |-> FALSE, targets |-> {}, enqueued |-> {},
   loop |-> <<>>, awaiting |-> "none"]

ResumeAllIdle == ra = NoResumeAll

\* The queue slot on its own: nothing enqueued, the slot free.
NoSlot ==
  [status |-> [id \in Ids |-> "pending"], path |-> [id \in Ids |-> "single"],
   queue |-> <<>>, run |-> "none", pc |-> "idle", aStatus |-> "none", mapped |-> FALSE,
   stop |-> FALSE, rx |-> 0, attempt |-> 0, started |-> 0, settled |-> 0, cmds |-> 0]
SlotIdle == sl = NoSlot

\* The token bucket as the response handler creates it: full, refilled now.
NoBucket ==
  [tokenBucket |-> BucketLimit, lastTokenRefill |-> 0, now |-> 0, pc |-> "idle",
   chunk |-> 0, wakeAt |-> 0, written |-> [t \in 0..MaxTicks |-> 0], chunks |-> 0,
   available |-> 0, waited |-> FALSE, waitMs |-> 0]
BucketIdle == tb = NoBucket

\* The fetchers on their own: no download yet.
NoSegs ==
  [totalSize |-> 0, threads |-> 0, status |-> "none", settled |-> TRUE, rows |-> <<>>,
   infos |-> <<>>, fetch |-> <<>>, fdOpen |-> FALSE, writes |-> {}, landed |-> {},
   done |-> <<>>, gen |-> 0, steps |-> 0]

SegIdle == sg = NoSegs

\* The progress pump on its own, as constructed: not started, no timer.
PumpIdle ==
  pp = [isRunning |-> FALSE, intervalId |-> FALSE, live |-> 0, isWindowVisible |-> TRUE,
        hasActiveDownloads |-> FALSE, checks |-> 0, startedBy |-> "none", steps |-> 0,
        dl |-> [id \in Ids |-> "none"]]

EngineIdle ==
  /\ db = [id \in Ids |-> Absent]
  /\ segs = [id \in Ids |-> <<>>]
  /\ schedules = {}
  /\ schedTimers = {}
  /\ files = [id \in Ids |-> NoFile]
  /\ activeDownloads = [id \in Ids |-> 0]
  /\ sess = <<>>
  /\ cleanups = [id \in Ids |-> 0]
  /\ queue = <<>>
  /\ retryCounts = [id \in Ids |-> 0]
  /\ timers = [id \in Ids |-> <<>>]
  /\ obs = NoObs
  /\ hist = [removed |-> {}, cancelled |-> {}, held |-> {}, completions |-> {},
             kr |-> [id \in Ids |-> "none"], snap |-> [id \in Ids |-> 0]]

Init ==
  /\ PlanIdle
  /\ QueueIdle
  /\ RetryIdle
  /\ AutoRetryIdle
  /\ BridgeIdle
  /\ SchedIdle
  /\ PumpIdle
  /\ SegIdle
  /\ ResumeAllIdle
  /\ SlotIdle
  /\ BucketIdle
  /\ ProbeIdle
  /\ EngineIdle
  /\ env \in { [cmds |-> MaxCmds, faults |-> MaxFaults, fires |-> MaxFires, ids |-> {"d1"}],
               [cmds |-> MaxPairCmds, faults |-> MaxFaults, fires |-> MaxFires, ids |-> Ids] }
  /\ settings \in [autoRetryFailed : BOOLEAN, maxRetries : {AutoMaxRetries},
                 maxConcurrentDownloads : {MaxConcurrent}]

Next ==
  \/ \E id \in Ids : \E request \in Requests(id) : IpcAdd(id, request)
  \/ \E id \in Ids : IpcPause(id)
  \/ \E id \in Ids : IpcResume(id)
  \/ \E id \in Ids : IpcCancel(id)
  \/ \E id \in Ids : IpcRetry(id)
  \/ \E id \in Ids : IpcRemove(id)
  \/ \E id \in Ids : IpcScheduleAdd(id)
  \/ \E id \in Ids : ScheduleFire(id)
  \/ \E id \in Ids : TimerFire(id)
  \/ \E id \in Ids : CleanupDone(id)
  \/ Kill
  \/ \E s \in 1..Len(sess) : OpenDone(s)
  \/ \E s \in 1..Len(sess) : OpenFail(s)
  \/ \E s \in 1..Len(sess) : CloseDone(s)
  \/ \E s \in 1..Len(sess) : VerifySize(s)
  \/ \E s \in 1..Len(sess) : HashDone(s)
  \/ \E s \in 1..Len(sess) : FailCloseDone(s)
  \/ \E s \in 1..Len(sess) : SResponse(s)
  \/ \E s \in 1..Len(sess) : SFail(s)
  \/ \E s \in 1..Len(sess) : SData(s)
  \/ \E s \in 1..Len(sess) : SEnd(s)
  \/ \E s \in 1..Len(sess) : SFinishLate(s)
  \/ \E s \in 1..Len(sess) : \E k \in 1..Len(sess[s].fetch) : FetchData(s, k)
  \/ \E s \in 1..Len(sess) : \E k \in 1..Len(sess[s].fetch) : FetchEnd(s, k)
  \/ \E s \in 1..Len(sess) : \E k \in 1..Len(sess[s].fetch) : FetchError(s, k)
  \/ \E s \in 1..Len(sess) : \E k \in 1..Len(sess[s].fetch) : FetchWake(s, k)

Spec == Init /\ [][Next]_vars

\* -------------------------------------- segment planning on its own inputs
PlanInit ==
  /\ planIn \in [totalSize : 1..MaxPlanSize, threads : 1..MaxPlanThreads]
  /\ planOut = <<>>
  /\ QueueIdle
  /\ RetryIdle
  /\ AutoRetryIdle
  /\ BridgeIdle
  /\ SchedIdle
  /\ PumpIdle
  /\ SegIdle
  /\ ResumeAllIdle
  /\ SlotIdle
  /\ BucketIdle
  /\ ProbeIdle
  /\ EngineIdle
  /\ env = [cmds |-> 0, faults |-> 0, fires |-> 0, ids |-> {}]
  /\ settings = [autoRetryFailed |-> FALSE, maxRetries |-> AutoMaxRetries,
               maxConcurrentDownloads |-> MaxConcurrent]

\* startMultiSegmentDownload, first start: segmentInfos = createSegments(...).
PlanSegments ==
  /\ planOut = <<>>
  /\ planOut' = createSegments(planIn.totalSize, planIn.threads)
  /\ UNCHANGED planIn
  /\ UNCHANGED <<engineVars, pq, rt, ar, pr, br, sc, pp, sg, ra, sl, tb>>

PlanNext == PlanSegments

SpecPlan == PlanInit /\ [][PlanNext]_vars

\* ------------------------------------------- queue admission on its own
\* QueueManager.enqueue over the p-queue, with the download a task starts
\* reduced to the time it holds its slot. A waiting task carries the number of
\* the enqueue call that added it (n).
QIds == {"q1", "q2", "q3"}
Priorities == {"high", "normal", "low"}

\* The ids whose download is running (the engine's active downloads).
QActive(p) == {e.id : e \in p.pending}

\* PQueue tryToStartAnother / next: while a slot is free, dequeue the head and
\* run it; the task returns at once when its id is already active.
RECURSIVE tryToStartAnother(_, _)
tryToStartAnother(p, concurrency) ==
  IF p.queue = <<>> \/ p.paused \/ Cardinality(p.pending) >= concurrency THEN p
  ELSE LET job == Head(p.queue)
           p1 == [p EXCEPT !.queue = Tail(@),
                           !.starts = @ \cup {[task |-> job, waiting |-> Tail(p.queue)]}]
       IN IF job.id \in QActive(p) THEN tryToStartAnother(p1, concurrency)
          ELSE tryToStartAnother([p1 EXCEPT !.pending = @ \cup {job}], concurrency)

\* QueueManager.enqueue(id, priority): nothing for an active id; else
\* queue.add(task, {priority: priorityToNumber(priority)}). Every caller
\* passes the priority of the download's row (pq.priority, -1: no row yet).
QEnqueue(id, priority) ==
  /\ pq.n < MaxEnqueues
  /\ pq.priority[id] \in {-1, priorityToNumber(priority)}
  /\ LET p == [pq EXCEPT !.n = @ + 1, !.starts = {},
                         !.priority[id] = priorityToNumber(priority)]
         e == [id |-> id, priority |-> priorityToNumber(priority), n |-> pq.n + 1]
     IN pq' = IF id \in QActive(pq) THEN p
              ELSE tryToStartAnother([p EXCEPT !.queue = PQEnqueue(@, e)],
                                     settings.maxConcurrentDownloads)
  /\ UNCHANGED <<planVars, engineVars, rt, ar, pr, br, sc, pp, sg, ra, sl, tb>>

\* The startDownload call of a running task settles: its slot is freed (next).
QSettle(e) ==
  /\ e \in pq.pending
  /\ pq' = tryToStartAnother([pq EXCEPT !.pending = @ \ {e}, !.starts = {}],
                             settings.maxConcurrentDownloads)
  /\ UNCHANGED <<planVars, engineVars, rt, ar, pr, br, sc, pp, sg, ra, sl, tb>>

\* queue:set-priority -> QueueManager.setPriority: the row's priority (and the
\* pendingItems entry, which nothing reads) is updated; the p-queue is not
\* touched.
QSetPriority(id, priority) ==
  /\ pq.priority[id] \notin {-1, priorityToNumber(priority)}
  /\ pq' = [pq EXCEPT !.starts = {}, !.priority[id] = priorityToNumber(priority)]
  /\ UNCHANGED <<planVars, engineVars, rt, ar, pr, br, sc, pp, sg, ra, sl, tb>>

QueueInit ==
  /\ PlanIdle
  /\ QueueIdle
  /\ RetryIdle
  /\ AutoRetryIdle
  /\ BridgeIdle
  /\ SchedIdle
  /\ PumpIdle
  /\ SegIdle
  /\ ResumeAllIdle
  /\ SlotIdle
  /\ BucketIdle
  /\ ProbeIdle
  /\ EngineIdle
  /\ env = [cmds |-> 0, faults |-> 0, fires |-> 0, ids |-> {}]
  /\ settings \in [autoRetryFailed : {FALSE}, maxRetries : {AutoMaxRetries},
                 maxConcurrentDownloads : 1..MaxQueueConcurrent]

QueueNext ==
  \/ \E id \in QIds : \E priority \in Priorities : QEnqueue(id, priority)
  \/ \E e \in pq.pending : QSettle(e)
  \/ \E id \in QIds : \E priority \in Priorities : QSetPriority(id, priority)

SpecQueue == QueueInit /\ [][QueueNext]_vars

\* ------------------------------------------------ withRetry on its own
\* SegmentDownloader.start: withRetry(() => this.downloadSegment(), config).
\* Times are in ms; the clock of a run is the time it has slept.

\* Math.random() as sampled, in thousandths: 0, 0.5 and 0.998.
RandomSamples == {0, 500, 998}

\* min(initialDelay * backoffFactor^attempt, maxDelay)
baseDelay(attempt, config) ==
  Min(config.initialDelay * Pow(config.backoffFactor, attempt), config.maxDelay)

\* A delay computation without the maxDelay cap.
calculateRetryDelayUncapped(attempt, config, random) ==
  LET base == config.initialDelay * Pow(config.backoffFactor, attempt) IN
  IF config.jitter THEN (base * (1500 + random)) \div 2000 ELSE base

\* calculateRetryDelay(attempt, config) with Math.random() = random / 1000:
\* floor(baseDelay * (0.75 + random * 0.5)), or floor(baseDelay) without jitter.
calculateRetryDelay(attempt, config, random) ==
  IF config.jitter
  THEN (baseDelay(attempt, config) * (1500 + random)) \div 2000
  ELSE baseDelay(attempt, config)

retryableCodes ==
  {"ECONNRESET", "ECONNREFUSED", "ECONNABORTED", "ETIMEDOUT", "EPIPE", "ENOTFOUND",
   "EAI_AGAIN", "EHOSTUNREACH", "ENETUNREACH", "ENETDOWN", "EPROTO", "ERR_SOCKET_TIMEOUT",
   "HPE_HEADER_OVERFLOW"}

\* An error classification that retries everything.
isRetryableErrorAlways(error) == TRUE

\* isRetryableError(error)
isRetryableError(error) ==
  IF error.code \in retryableCodes THEN TRUE
  ELSE IF error.statusCode # 0 /\ error.statusCode = 429 THEN TRUE
  ELSE IF error.statusCode # 0 /\ error.statusCode = 408 THEN TRUE
  ELSE IF error.statusCode # 0 /\ error.statusCode >= 500 /\ error.statusCode < 600 THEN TRUE
  ELSE IF error.statusCode # 0 /\ error.statusCode >= 400 /\ error.statusCode < 500 THEN FALSE
  ELSE IF error.message \in {"Stall timeout"} THEN TRUE
  ELSE TRUE

\* null, as getRetryAfterMs returns it.
Null == -1

\* getRetryAfterMs(error) at time now: error.response?.headers?.['retry-after']
\* parsed as seconds, else as a date.
getRetryAfterMs(error, now) ==
  IF ~error.hasResponse THEN Null
  ELSE LET retryAfter == error.response.retryAfter IN
       CASE retryAfter.form = "none" -> Null
         [] retryAfter.form = "seconds" -> retryAfter.v * 1000
         [] retryAfter.form = "date" -> IF retryAfter.v - now > 0 THEN retryAfter.v - now ELSE 0
         [] OTHER -> Null

\* The error the fetcher rejects with on a status other than 206 and 200
\* (new Error(`HTTP ${statusCode} ...`) with .statusCode), and on a
\* connection error, a request timeout, a stall or a failed write (.code).
statusError(response) ==
  [code |-> "none", statusCode |-> response.statusCode, message |-> "HTTP",
   hasResponse |-> FALSE, response |-> NoResponse]

codeError(code, message) ==
  [code |-> code, statusCode |-> 0, message |-> message, hasResponse |-> FALSE,
   response |-> NoResponse]

RECURSIVE RSum(_)
RSum(q) == IF q = <<>> THEN 0 ELSE Head(q) + RSum(Tail(q))

\* The responses and failures a server and the network are explored to give.
RetryStatuses == {404, 408, 429, 503}
RetryAfterHeaders ==
  {NoHeader, [form |-> "seconds", v |-> 2], [form |-> "date", v |-> 2500]}
FetchFailures ==
  {codeError("ECONNRESET", "socket hang up"), codeError("ETIMEDOUT", "Stall timeout"),
   codeError("EBADF", "bad file descriptor")}

RetryConfigs ==
  [maxRetries : 0..MaxRetryLimit, initialDelay : {1000}, maxDelay : {3000, 30000},
   backoffFactor : {2}, jitter : BOOLEAN]

\* withRetry's catch block for the error of attempt r.attempt.
withRetryOnError(r, error, response, random) ==
  LET r1 == [r EXCEPT !.lastError = error, !.lastResponse = response] IN
  IF r.attempt >= r.cfg.maxRetries THEN [r1 EXCEPT !.pc = "thrown", !.thrown = error]
  ELSE IF ~isRetryableError(error) THEN [r1 EXCEPT !.pc = "thrown", !.thrown = error]
  ELSE LET retryAfter == getRetryAfterMs(error, RSum(r.delays))
           delay == IF retryAfter # Null THEN retryAfter
                    ELSE calculateRetryDelay(r.attempt, r.cfg, random)
       IN [r1 EXCEPT !.pc = "sleep", !.delays = Append(@, delay),
                     !.rand = Append(@, random)]

\* fn() resolves: withRetry returns.
RtResolve ==
  /\ rt.pc = "call"
  /\ rt' = [rt EXCEPT !.pc = "returned"]
  /\ UNCHANGED <<planVars, engineVars, pq, ar, pr, br, sc, pp, sg, ra, sl, tb>>

\* fn() rejects: the server answered with a status other than 206 and 200.
RtStatus(response) ==
  /\ rt.pc = "call"
  /\ \E random \in RandomSamples :
       rt' = withRetryOnError(rt, statusError(response), response, random)
  /\ UNCHANGED <<planVars, engineVars, pq, ar, pr, br, sc, pp, sg, ra, sl, tb>>

\* fn() rejects: connection error, timeout, stall or failed write.
RtFailure(error) ==
  /\ rt.pc = "call"
  /\ \E random \in RandomSamples :
       rt' = withRetryOnError(rt, error, NoResponse, random)
  /\ UNCHANGED <<planVars, engineVars, pq, ar, pr, br, sc, pp, sg, ra, sl, tb>>

\* The sleep ends: the loop's next attempt calls fn().
RtWake ==
  /\ rt.pc = "sleep"
  /\ rt' = [rt EXCEPT !.pc = "call", !.attempt = @ + 1, !.calls = @ + 1]
  /\ UNCHANGED <<planVars, engineVars, pq, ar, pr, br, sc, pp, sg, ra, sl, tb>>

RetryInit ==
  /\ PlanIdle
  /\ QueueIdle
  /\ AutoRetryIdle
  /\ BridgeIdle
  /\ SchedIdle
  /\ PumpIdle
  /\ SegIdle
  /\ ResumeAllIdle
  /\ SlotIdle
  /\ BucketIdle
  /\ ProbeIdle
  /\ EngineIdle
  /\ env = [cmds |-> 0, faults |-> 0, fires |-> 0, ids |-> {}]
  /\ settings = [autoRetryFailed |-> FALSE, maxRetries |-> AutoMaxRetries,
               maxConcurrentDownloads |-> MaxConcurrent]
  /\ \E cfg \in RetryConfigs :
       rt = [pc |-> "call", cfg |-> cfg, attempt |-> 0, calls |-> 1, delays |-> <<>>,
             rand |-> <<>>, lastError |-> NoError, lastResponse |-> NoResponse,
             thrown |-> NoError]

RetryNext ==
  \/ RtResolve
  \/ \E statusCode \in RetryStatuses : \E retryAfter \in RetryAfterHeaders :
       RtStatus([statusCode |-> statusCode, retryAfter |-> retryAfter])
  \/ \E error \in FetchFailures : RtFailure(error)
  \/ RtWake

SpecRetry == RetryInit /\ [][RetryNext]_vars

\* Every pending step of the run is taken in the end: fn settles, timers fire.
SpecRetryLive == SpecRetry /\ WF_vars(RetryNext)

\* C1: for every totalSize > 0 and threads >= 1 the planned segments are in
\* index order, contiguous, pairwise disjoint, cover [0, totalSize-1] exactly,
\* and none is empty or inverted (startByte <= endByte).
C1_PlanPartitions ==
  planOut # <<>> =>
    /\ \A k \in 1..Len(planOut) :
         /\ planOut[k].index = k - 1
         /\ planOut[k].startByte <= planOut[k].endByte
    /\ planOut[1].startByte = 0
    /\ planOut[Len(planOut)].endByte = planIn.totalSize - 1
    /\ \A k \in 1..(Len(planOut) - 1) :
         planOut[k + 1].startByte = planOut[k].endByte + 1

\* ------------------------------------------------ properties of the engine
\* The start sessions of a download that can still run code.
Sessions(id) == {s \in 1..Len(sess) : sess[s].pc # "free" /\ sess[s].id = id}

\* A session that is transferring or about to: its file is being opened, a
\* fetcher of it that was neither paused nor cancelled has a request in flight
\* or is waiting to retry, or its single-connection stream is open.
Transferring(s) ==
  \/ sess[s].pc \in {"open", "sreq"}
  \/ \E k \in 1..Len(sess[s].fetch) :
       /\ sess[s].fetch[k].st \in {"req", "sleep"}
       /\ ~sess[s].fetch[k].paused /\ ~sess[s].fetch[k].cancelled
  \/ sess[s].stream = "open"

\* Nothing of the download is running, queued or armed.
Idle(id) ==
  /\ Sessions(id) = {}
  /\ \A i \in 1..Len(queue) : queue[i].id # id
  /\ cleanups[id] = 0 /\ timers[id] = <<>> /\ id \notin schedTimers

\* The file at savePath holds exactly the resource's bytes.
FileWhole(id) ==
  /\ files[id].exists
  /\ files[id].size = db[id].totalSize
  /\ files[id].good = 0..(db[id].totalSize - 1)

\* C2: at every instant the number of downloads whose status is downloading
\* is at most maxConcurrentDownloads (counted are the downloads that have a
\* transferring session, so that a status left behind by a kill is not).
C2_ConcurrencyCap ==
  Cardinality({id \in Ids : /\ db[id].status = "downloading"
                            /\ \E s \in Sessions(id) : Transferring(s)})
    <= settings.maxConcurrentDownloads

ClaimedTransitions ==
  { <<"pending", "queued">>, <<"queued", "downloading">>,
    <<"downloading", "paused">>, <<"downloading", "verifying">>,
    <<"downloading", "error">>, <<"downloading", "completed">>,
    <<"paused", "queued">>, <<"error", "queued">> }

\* C3: every change of a download's persisted status is one of
\* pending->queued, queued->downloading, downloading->paused,
\* downloading->verifying, downloading->error, downloading->completed,
\* paused->queued, error->queued.
C3_OnlyClaimedTransitions == obs.trans \subseteq ClaimedTransitions

\* The step committed a transition of the download: a segment completed, the
\* download completed or failed, or it was paused, cancelled or retried.
Committed(id) ==
  \/ \E kind \in {"segment-complete", "complete", "error"} : <<kind, id>> \in obs.ev
  \/ obs.id = id /\ obs.cmd \in {"pause", "cancel", "retry"}

\* C4: for every download that has segment rows, after every committed
\* transition the stored download.downloadedBytes equals the sum of the stored
\* downloadedBytes of its segment rows.
C4_ByteAccounting ==
  \A id \in Ids :
    (segs[id] # <<>> /\ Committed(id)) => db[id].downloadedBytes = SumDl(segs[id])

\* C5: status completed is persisted only after the on-disk size was verified
\* equal to totalSize and, when a checksum was given, after the file's hash was
\* computed and found equal, on the multi-segment and the single-connection
\* path alike (checked in runs without faults).
C5_CompletedOnlyVerified ==
  env.faults = MaxFaults =>
    \A c \in hist.completions : c.sizeOk /\ (c.checksum # "none" => c.hashOk)

\* C6: a multi-segment download interrupted by a kill at any point and then
\* resumed through the command surface ends completed with the whole file
\* (checked where nothing of the download is left to run, in runs without
\* faults).
C6_KillAndResume ==
  \A id \in Ids :
    (hist.kr[id] = "resumed" /\ env.faults = MaxFaults /\ Idle(id))
      => (db[id].status = "completed" /\ FileWhole(id))

\* C7: a pause issued while the status is downloading pauses every fetcher of
\* the download, stores the download's and every segment's downloadedBytes as
\* of the pause, sets the status paused and destroys the ActiveDownload (its
\* file being closed).
C7_PauseWhileDownloading ==
  (obs.cmd = "pause" /\ obs.pre = "downloading") =>
    /\ db[obs.id].status = "paused"
    /\ activeDownloads[obs.id] = 0 \/ cleanups[obs.id] > 0
    /\ \A s \in Sessions(obs.id) : \A k \in 1..Len(sess[s].fetch) : sess[s].fetch[k].paused
    /\ \A s \in Sessions(obs.id) : ~sess[s].fdOpen
    /\ Len(obs.snap) > 0 =>
         /\ db[obs.id].downloadedBytes = SumDl(obs.snap)
         /\ \A k \in 1..Len(obs.snap) : \E j \in 1..Len(segs[obs.id]) :
              /\ segs[obs.id][j].index = obs.snap[k].index
              /\ segs[obs.id][j].downloadedBytes = obs.snap[k].downloadedBytes

\* C8: after cancel the download stays in status error with error
\* "Cancelled by user", its partial file stays deleted and no transfer of it
\* goes on (until a later command or timer starts it again).
C8_CancelStops ==
  \A id \in hist.cancelled :
    /\ db[id].status = "error" /\ db[id].error = "Cancelled by user"
    /\ ~files[id].exists
    /\ \A s \in Sessions(id) : ~Transferring(s)

\* C9: after remove no downloads row, no segments row and no schedules row of
\* the id exists, whatever state the download was in, and none reappears
\* through a later callback of the removed download's session.
C9_RemovedStaysRemoved ==
  \A id \in hist.removed : db[id] = Absent /\ segs[id] = <<>> /\ id \notin schedules

\* A session of a removed download has just run its completion ("Mark
\* complete") against the deleted rows.
C9_Witness == \E id \in hist.removed : <<"complete", id>> \in obs.ev

\* C10: for each id at most one start session is transferring at any time.
C10_OneSessionPerId ==
  \A id \in Ids : Cardinality({s \in Sessions(id) : Transferring(s)}) <= 1

\* The step is a retry of the download (the command or the auto-retry timer).
RetryStep(id) == obs.id = id /\ obs.cmd \in {"retry", "autoretry"}

\* The step registered a session that a retry started.
RetrySessionRegistered(id) ==
  /\ activeDownloads'[id] # 0
  /\ activeDownloads'[id] # activeDownloads[id]
  /\ sess'[activeDownloads'[id]].origin \in {"retry", "autoretry"}

\* ------------------------------------------------ auto-retry on its own
\* The queue manager's handlers and timers against downloads that start, fail,
\* complete, and are cancelled, retried and removed. A start session of an id
\* stays in flight until it fails or completes; neither cancel nor remove ends
\* it at once.
autoRetryFrame ==
  <<planVars, db, segs, schedules, schedTimers, files, activeDownloads, sess, cleanups,
    queue, settings, env, obs, hist, pq, rt, pr, br, sc, pp, sg, ra, sl, tb>>

ArStep(w, a) ==
  /\ ar.steps < MaxAutoRetrySteps
  /\ retryCounts' = w.retryCounts /\ timers' = w.timers
  /\ ar' = [a EXCEPT !.steps = @ + 1]
  /\ UNCHANGED autoRetryFrame

Listed(id) == ar.status[id] \notin {"absent", "removed"}

\* download:add and the queue task's startDownload.
ArAdd(id) ==
  /\ ar.status[id] = "absent"
  /\ ArStep(World, [ar EXCEPT !.status[id] = "downloading", !.inflight[id] = 1,
                              !.last = NoLast])

\* startDownload's catch: status error on the row (if any), emit download-error.
ArFail(id) ==
  /\ ar.inflight[id] > 0
  /\ LET w == onDownloadError(World, id)
         armed == Len(w.timers[id]) - Len(timers[id])
         exhausted == settings.autoRetryFailed /\ ar.run[id] >= settings.maxRetries
     IN ArStep(w, [ar EXCEPT
          !.inflight[id] = @ - 1,
          !.status[id] = IF @ = "removed" THEN @ ELSE "error",
          !.last = [id |-> id, armed |-> armed,
                    delay |-> IF armed > 0 THEN w.timers[id][Len(w.timers[id])] ELSE 0,
                    since |-> ar.since[id], run |-> ar.run[id]],
          !.since[id] = @ + armed,
          !.run[id] = IF exhausted THEN 0 ELSE @ + armed])

\* The completion path: status completed on the row (if any), emit
\* download-complete.
ArComplete(id) ==
  /\ ar.inflight[id] > 0
  /\ ArStep(onDownloadComplete(World, id), [ar EXCEPT
       !.inflight[id] = @ - 1,
       !.status[id] = IF @ = "removed" THEN @ ELSE "completed",
       !.last = NoLast, !.since[id] = 0, !.run[id] = 0])

\* download:cancel -> cancelDownload: status error, emit download-cancelled.
ArCancel(id) ==
  /\ Listed(id)
  /\ ArStep(onDownloadCancelled(World, id), [ar EXCEPT
       !.status[id] = "error", !.last = NoLast, !.run[id] = 0, !.cancelled[id] = TRUE])

\* download:retry -> retryDownload: a new start session.
ArRetry(id) ==
  /\ ar.status[id] \in {"error", "downloading"}
  /\ ar.inflight[id] < MaxAutoRetrySess
  /\ ArStep(World, [ar EXCEPT !.status[id] = "downloading", !.inflight[id] = @ + 1,
                              !.last = NoLast, !.cancelled[id] = FALSE])

\* download:remove -> removeDownload: the row is deleted; no event.
ArRemove(id) ==
  /\ Listed(id)
  /\ ArStep(World, [ar EXCEPT !.status[id] = "removed", !.last = NoLast,
                              !.since[id] = 0, !.cancelled[id] = FALSE])

\* An auto-retry timer fires: retry if the row is there with status error.
ArTimerFire(id) ==
  \E i \in 1..Len(timers[id]) :
    /\ ar.status[id] = "error" => ar.inflight[id] < MaxAutoRetrySess
    /\ ArStep([World EXCEPT !.timers[id] = RemoveAt(@, i)],
              IF ar.status[id] = "error"
              THEN [ar EXCEPT !.status[id] = "downloading", !.inflight[id] = @ + 1,
                              !.last = NoLast]
              ELSE [ar EXCEPT !.last = NoLast])

AutoRetryInit ==
  /\ PlanIdle
  /\ QueueIdle
  /\ RetryIdle
  /\ AutoRetryIdle
  /\ BridgeIdle
  /\ SchedIdle
  /\ PumpIdle
  /\ SegIdle
  /\ ResumeAllIdle
  /\ SlotIdle
  /\ BucketIdle
  /\ ProbeIdle
  /\ EngineIdle
  /\ env = [cmds |-> 0, faults |-> 0, fires |-> 0, ids |-> {}]
  /\ settings \in [autoRetryFailed : BOOLEAN, maxRetries : 1..MaxAutoRetryLimit,
                   maxConcurrentDownloads : {MaxConcurrent}]

AutoRetryNext ==
  \/ \E id \in Ids : ArAdd(id)
  \/ \E id \in Ids : ArFail(id)
  \/ \E id \in Ids : ArComplete(id)
  \/ \E id \in Ids : ArCancel(id)
  \/ \E id \in Ids : ArRetry(id)
  \/ \E id \in Ids : ArRemove(id)
  \/ \E id \in Ids : ArTimerFire(id)

SpecAutoRetry == AutoRetryInit /\ [][AutoRetryNext]_vars

\* ------------------------------------------------ request chains on their own
\* One chain of requests against a server that answers each request with a
\* redirect, a final response or an error: the HEAD probe of addDownload
\* (followed by the row it builds and the path startDownload takes), a segment
\* GET, or the single-connection GET.
ChainKinds == {"probe", "segment", "single"}
AcceptRangesValues == {"absent", "bytes", "none"}
Answers ==
  [statusCode : {200, 404}, contentLength : {0, 5}, acceptRanges : AcceptRangesValues]
\* request.threads || settings.maxThreadsPerDownload as explored
ThreadChoices == {1, 4}

\* _probeUrl's response callback for a response that is not a redirect.
probeResult(res) ==
  IF res.statusCode \notin {200, 206} THEN FailOpen
  ELSE [totalSize |-> res.contentLength,
        supportsRange |-> \/ res.acceptRanges = "bytes"
                          \/ res.contentLength > 0 /\ res.acceptRanges # "none"]

\* The row addDownload builds from the probe's result.
probeItem(result, threads) ==
  [totalSize |-> result.totalSize, resumable |-> result.supportsRange,
   threads |-> IF result.supportsRange THEN threads ELSE 1]

\* startDownload's choice of path.
startPath(item) == IF item.resumable /\ item.totalSize > 0 THEN "multi" ELSE "single"

PrFrame == UNCHANGED <<planVars, engineVars, pq, rt, ar, br, sc, pp, sg, ra, sl, tb>>

\* The server answers 3xx with a Location. The probe counts the redirect and
\* gives up past 10; the GETs call themselves again with the new URL.
PrRedirect ==
  /\ pr.pc = "request" /\ pr.requests <= MaxRedirects
  /\ pr' = IF pr.kind = "probe"
           THEN IF pr.redirectCount + 1 > 10
                THEN [pr EXCEPT !.redirectCount = @ + 1, !.pc = "probed", !.result = FailOpen]
                ELSE [pr EXCEPT !.redirectCount = @ + 1, !.requests = @ + 1]
           ELSE [pr EXCEPT !.requests = @ + 1]
  /\ PrFrame

\* The server answers with a response that is not a redirect.
PrAnswer(res) ==
  /\ pr.pc = "request"
  /\ pr' = IF pr.kind = "probe"
           THEN [pr EXCEPT !.pc = "probed", !.res = res, !.result = probeResult(res)]
           ELSE [pr EXCEPT !.pc = "body", !.res = res]
  /\ PrFrame

\* The request fails or times out: the probe fails open, a GET rejects.
PrError ==
  /\ pr.pc = "request"
  /\ pr' = IF pr.kind = "probe"
           THEN [pr EXCEPT !.pc = "probed", !.result = FailOpen]
           ELSE [pr EXCEPT !.pc = "failed"]
  /\ PrFrame

\* addDownload after the probe: the row.
PrInsert(threads) ==
  /\ pr.pc = "probed"
  /\ pr' = [pr EXCEPT !.pc = "pending", !.item = probeItem(pr.result, threads)]
  /\ PrFrame

\* startDownload: the path taken.
PrStart ==
  /\ pr.pc = "pending"
  /\ pr' = [pr EXCEPT !.pc = "started", !.path = startPath(pr.item)]
  /\ PrFrame

ProbeInit ==
  /\ PlanIdle
  /\ QueueIdle
  /\ RetryIdle
  /\ AutoRetryIdle
  /\ BridgeIdle
  /\ SchedIdle
  /\ PumpIdle
  /\ SegIdle
  /\ ResumeAllIdle
  /\ SlotIdle
  /\ BucketIdle
  /\ EngineIdle
  /\ env = [cmds |-> 0, faults |-> 0, fires |-> 0, ids |-> {}]
  /\ settings = [autoRetryFailed |-> FALSE, maxRetries |-> AutoMaxRetries,
                 maxConcurrentDownloads |-> MaxConcurrent]
  /\ \E kind \in ChainKinds :
       pr = [kind |-> kind, pc |-> "request", redirectCount |-> 0, requests |-> 1,
             res |-> NoAnswer, result |-> FailOpen, item |-> NoItem, path |-> "none"]

ProbeNext ==
  \/ PrRedirect
  \/ \E res \in Answers : PrAnswer(res)
  \/ PrError
  \/ \E threads \in ThreadChoices : PrInsert(threads)
  \/ PrStart

SpecProbe == ProbeInit /\ [][ProbeNext]_vars

\* ------------------------------------------------ the pipe server on its own
\* One connection of the native host and the frame it sends, against a queue
\* that other downloads occupy and that the user pauses and starts.
BridgeId == "q3"
OtherIds == QIds \ {BridgeId}
BrUnchanged == UNCHANGED <<planVars, engineVars, rt, ar, pr, sc, pp, sg, ra, sl, tb>>

\* PipeServer.start: nothing when this.server is set; else create the server
\* and call listen.
start(b) ==
  IF b.server # "null" THEN [b EXCEPT !.spc = "returned"]
  ELSE [b EXCEPT !.server = "set", !.spc = "listen"]

\* main.ts: pipeServer.start()
PsStart ==
  /\ br.spc = "new"
  /\ br' = start(br)
  /\ UNCHANGED pq
  /\ BrUnchanged

\* listen settles: the server listens on a free name; on a name in use the
\* 'error' handler (EADDRINUSE) connects to the endpoint as a probe.
PsListen ==
  /\ br.spc = "listen"
  /\ br' = IF br.endpoint = "free"
           THEN [br EXCEPT !.listening = TRUE, !.endpoint = "ours", !.spc = "listening"]
           ELSE [br EXCEPT !.spc = "probing"]
  /\ UNCHANGED pq
  /\ BrUnchanged

\* The probe settles: connected (another instance is running: client.end())
\* or failed (stale: this.server.close() and a 1 s timer for start()).
PsProbe ==
  /\ br.spc = "probing"
  /\ br' = IF br.endpoint = "live" THEN [br EXCEPT !.spc = "other-instance"]
           ELSE [br EXCEPT !.spc = "retryTimer"]
  /\ UNCHANGED pq
  /\ BrUnchanged

\* The 1 s timer fires: this.start().
PsRetry ==
  /\ br.spc = "retryTimer"
  /\ br' = start(br)
  /\ UNCHANGED pq
  /\ BrUnchanged

\* socket.write(frame): the frame reaches a connection that is still open.
write(b, frame) == IF b.conn = "open" THEN [b EXCEPT !.replies = Append(@, frame)] ELSE b

\* PipeServer 'data': a complete line arrives; handleMessage parses it and
\* calls engine.addDownload, or answers an unparsable line with an error.
BrReceive(valid) ==
  /\ br.listening
  /\ br.pc = "idle" /\ br.conn = "open"
  /\ br' = IF valid THEN [br EXCEPT !.pc = "adding"]
           ELSE [write(br, "error") EXCEPT !.pc = "replied"]
  /\ UNCHANGED pq
  /\ BrUnchanged

\* addDownload settles: on success handleMessage calls queueManager.enqueue
\* and awaits it (queue.add's promise); on failure it writes an error reply.
BrAdd(ok) ==
  /\ br.pc = "adding"
  /\ IF ok
     THEN LET e == [id |-> BridgeId, priority |-> priorityToNumber("normal"), n |-> pq.n + 1]
          IN /\ pq' = tryToStartAnother(
                        [pq EXCEPT !.n = @ + 1, !.starts = {}, !.queue = PQEnqueue(@, e),
                                   !.priority[BridgeId] = e.priority],
                        settings.maxConcurrentDownloads)
             /\ br' = [br EXCEPT !.pc = "awaiting", !.task = e]
     ELSE /\ br' = [write(br, "error") EXCEPT !.pc = "replied"]
          /\ UNCHANGED pq
  /\ BrUnchanged

\* queue.add's promise resolves once the task has run to its end; then
\* handleMessage writes the acknowledgment.
BrAck ==
  /\ br.pc = "awaiting"
  /\ br.task \notin pq.pending
  /\ \A i \in 1..Len(pq.queue) : pq.queue[i] # br.task
  /\ br' = [write(br, "ack") EXCEPT !.pc = "replied"]
  /\ UNCHANGED pq
  /\ BrUnchanged

\* sendToPipe's 10 s timeout: the client destroys the connection.
BrClientTimeout ==
  /\ br.pc # "idle" /\ br.conn = "open"
  /\ br' = [br EXCEPT !.conn = "destroyed"]
  /\ UNCHANGED pq
  /\ BrUnchanged

\* The startDownload call of a running task settles.
BrSettle ==
  \E e \in pq.pending : QSettle(e)

\* pauseAll: queue.pause().
BrPause ==
  /\ ~pq.paused
  /\ pq' = [pq EXCEPT !.paused = TRUE, !.starts = {}]
  /\ UNCHANGED br
  /\ BrUnchanged

\* resumeAll: queue.start(), which processes the queue.
BrStart ==
  /\ pq.paused
  /\ pq' = tryToStartAnother([pq EXCEPT !.paused = FALSE, !.starts = {}],
                             settings.maxConcurrentDownloads)
  /\ UNCHANGED br
  /\ BrUnchanged

BridgeInit ==
  /\ PlanIdle
  /\ QueueIdle
  /\ RetryIdle
  /\ AutoRetryIdle
  /\ ProbeIdle
  /\ \E endpoint \in {"free", "stale", "live"} : br = [NoBridge EXCEPT !.endpoint = endpoint]
  /\ SchedIdle
  /\ PumpIdle
  /\ SegIdle
  /\ ResumeAllIdle
  /\ SlotIdle
  /\ BucketIdle
  /\ EngineIdle
  /\ env = [cmds |-> 0, faults |-> 0, fires |-> 0, ids |-> {}]
  /\ settings \in [autoRetryFailed : {FALSE}, maxRetries : {AutoMaxRetries},
                   maxConcurrentDownloads : 1..MaxQueueConcurrent]

BridgeNext ==
  \/ PsStart
  \/ PsListen
  \/ PsProbe
  \/ PsRetry
  \/ \E valid \in BOOLEAN : BrReceive(valid)
  \/ \E ok \in BOOLEAN : BrAdd(ok)
  \/ BrAck
  \/ BrClientTimeout
  \/ \E id \in OtherIds : \E priority \in Priorities : QEnqueue(id, priority)
  \/ BrSettle
  \/ BrPause
  \/ BrStart

SpecBridge == BridgeInit /\ [][BridgeNext]_vars

\* The handler's own steps are taken and running downloads settle; the user
\* need not start a paused queue and the client need not time out.
SpecBridgeLive ==
  /\ SpecBridge
  /\ WF_vars(PsStart \/ PsListen \/ PsProbe \/ PsRetry)
  /\ WF_vars(\E ok \in BOOLEAN : BrAdd(ok))
  /\ WF_vars(BrAck)
  /\ WF_vars(BrSettle)

\* ------------------------------------------------ the scheduler on its own
\* One schedule of a download: its timer is armed, fires and (for a repeating
\* schedule) is armed again; with autoShutdown the watcher polls the download
\* and arms the shutdown timer. Times are in ms, counted from the start of the
\* run (the code only takes differences of times and compares them).
dayMs == 86400000
weekMs == 7 * dayMs
SchedNows == {0}
ScheduledTimes(now) ==
  {now + 1000, now, now - 299999, now - 300000, now - 300001,
   now - dayMs, now - dayMs - 300001, now - weekMs - 5}
Repeats == {"none", "daily", "weekly"}

\* getNextOccurrenceDelay's loop: while (nextTime <= now) nextTime += interval
RECURSIVE nextOccurrence(_, _, _)
nextOccurrence(nextTime, interval, now) ==
  IF nextTime <= now THEN nextOccurrence(nextTime + interval, interval, now) ELSE nextTime

\* A next occurrence that adds the interval once.
getNextOccurrenceDelayOnce(schedule, now) ==
  schedule.scheduledTime + (IF schedule.repeat = "daily" THEN dayMs ELSE weekMs) - now

getNextOccurrenceDelay(schedule, now) ==
  LET interval == IF schedule.repeat = "daily" THEN dayMs ELSE weekMs
  IN nextOccurrence(schedule.scheduledTime, interval, now) - now

\* setTimer's delay at time now; Null when no timer is armed.
setTimerDelay(schedule, now) ==
  LET delay == schedule.scheduledTime - now IN
  IF delay <= 0
  THEN IF -delay < 5 * 60 * 1000 THEN 0
       ELSE IF schedule.repeat = "none" THEN Null
       ELSE getNextOccurrenceDelay(schedule, now)
  ELSE delay

\* setTimer(schedule) at the scheduler's current time.
setTimer(s, schedule) ==
  LET delay == setTimerDelay(schedule, s.now) IN
  [s EXCEPT !.timer = delay,
            !.set = [scheduledTime |-> schedule.scheduledTime, repeat |-> schedule.repeat,
                     now |-> s.now, delay |-> delay]]

ScUnchanged == UNCHANGED <<planVars, engineVars, pq, rt, ar, pr, br, pp, sg, ra, sl, tb>>

\* initialize / addSchedule: setTimer(schedule).
ScArm ==
  /\ sc.pc = "new"
  /\ sc' = [setTimer(sc, sc.schedule) EXCEPT !.pc = "armed"]
  /\ ScUnchanged

\* The schedule timer fires after its delay: timers.delete, then
\* await queueManager.enqueue(downloadId).
ScFire ==
  /\ sc.timer # Null /\ sc.fires < MaxSchedFires /\ ~sc.cancelled
  /\ sc' = [sc EXCEPT !.now = @ + sc.timer, !.timer = Null, !.fires = @ + 1,
                      !.pc = "enqueueing"]
  /\ ScUnchanged

\* enqueue returns with the download in some status; with autoShutdown the
\* watcher is set up, and a repeating schedule is armed for its next time.
ScEnqueued(status) ==
  /\ sc.pc = "enqueueing"
  /\ LET s1 == [sc EXCEPT !.pc = "armed", !.status = status,
                          !.watcher = @ \/ sc.schedule.autoShutdown]
     IN sc' = IF sc.schedule.repeat = "none" THEN s1
              ELSE setTimer(s1, [sc.schedule EXCEPT
                     !.scheduledTime = s1.now + getNextOccurrenceDelay(sc.schedule, s1.now)])
  /\ ScUnchanged

\* The download goes on: it completes, fails or is removed.
ScDownload(status) ==
  /\ sc.fires > 0 /\ sc.pc = "armed"
  /\ sc.status \in {"downloading", "paused"} /\ status # sc.status
  /\ sc' = [sc EXCEPT !.status = status]
  /\ ScUnchanged

\* setupAutoShutdown's 5 s poll: stop on a missing row or status error; on
\* completed stop and arm the 60 s shutdown timer.
ScPoll ==
  /\ sc.watcher
  /\ sc.status \in {"absent", "completed", "error"}
  /\ sc' = [sc EXCEPT !.watcher = FALSE,
                      !.shutdownTimer = IF sc.status = "completed" THEN "armed" ELSE @]
  /\ ScUnchanged

\* The shutdown timer fires: exec('shutdown /s /t 0').
ScShutdown ==
  /\ sc.shutdownTimer = "armed"
  /\ sc' = [sc EXCEPT !.shutdownTimer = "fired", !.shutdowns = @ + 1]
  /\ ScUnchanged

\* cancelShutdown(), called once the schedule has fired: if shutdownTimer is
\* set, clear it and issue the abort command.
ScCancelShutdown ==
  /\ sc.fires > 0 /\ sc.pc = "armed" /\ ~sc.cancelled
  /\ sc' = [sc EXCEPT !.cancelled = TRUE, !.atCancel = sc.shutdowns,
                      !.shutdownTimer = IF @ # "null" THEN "null" ELSE @]
  /\ ScUnchanged

\* removeSchedule(id): the timer found in this.timers is cleared and the row
\* deleted. A callback that has fired has taken its entry out of this.timers
\* and holds its own copy of the schedule.
ScRemove ==
  /\ sc.pc \in {"armed", "enqueueing"} /\ ~sc.removed
  /\ sc' = [sc EXCEPT !.removed = TRUE, !.atRemove = sc.fires, !.timer = Null]
  /\ ScUnchanged

SchedInit ==
  /\ PlanIdle
  /\ QueueIdle
  /\ RetryIdle
  /\ AutoRetryIdle
  /\ BridgeIdle
  /\ PumpIdle
  /\ SegIdle
  /\ ResumeAllIdle
  /\ SlotIdle
  /\ BucketIdle
  /\ ProbeIdle
  /\ EngineIdle
  /\ env = [cmds |-> 0, faults |-> 0, fires |-> 0, ids |-> {}]
  /\ settings = [autoRetryFailed |-> FALSE, maxRetries |-> AutoMaxRetries,
                 maxConcurrentDownloads |-> MaxConcurrent]
  /\ \E now \in SchedNows : \E scheduledTime \in ScheduledTimes(now) :
     \E repeat \in Repeats : \E autoShutdown \in BOOLEAN :
       sc = [NoSched EXCEPT !.pc = "new", !.now = now,
               !.schedule = [scheduledTime |-> scheduledTime, repeat |-> repeat,
                             autoShutdown |-> autoShutdown]]

SchedNext ==
  \/ ScArm
  \/ ScFire
  \/ \E status \in {"downloading", "paused", "completed", "error"} : ScEnqueued(status)
  \/ \E status \in {"absent", "completed", "error"} : ScDownload(status)
  \/ ScPoll
  \/ ScShutdown
  \/ ScCancelShutdown
  \/ ScRemove

SpecSched == SchedInit /\ [][SchedNext]_vars

\* ------------------------------------------------ the progress pump on its own
\* ProgressTracker against the engine's events. Each download is not there
\* (none), pending, active (in the engine's map), closing (ended, its map
\* entry kept until closeFile returns), paused, error or completed.
PumpActive(p) == {id \in Ids : p.dl[id] \in {"active", "closing-paused", "closing-error"}}

startInterval(p, by) ==
  IF p.intervalId THEN p
  ELSE [p EXCEPT !.intervalId = TRUE, !.live = @ + 1, !.startedBy = by]

stopInterval(p) ==
  IF p.intervalId THEN [p EXCEPT !.intervalId = FALSE, !.live = @ - 1] ELSE p

onDownloadsChanged(p, by) ==
  IF ~p.isRunning THEN p
  ELSE IF ~p.intervalId THEN startInterval([p EXCEPT !.hasActiveDownloads = TRUE], by)
  ELSE p

checkIdle(p) ==
  IF ~p.isRunning THEN p
  ELSE IF PumpActive(p) = {} /\ p.intervalId
       THEN stopInterval([p EXCEPT !.hasActiveDownloads = FALSE])
       ELSE p

adjustInterval(p) ==
  IF ~p.intervalId THEN p
  ELSE [p EXCEPT !.live = (@ - 1) + 1]

\* onInactive: setTimeout(() => this.checkIdle(), 100)
onInactive(p) == [p EXCEPT !.checks = @ + 1]

PpStep(p) ==
  /\ pp.steps < MaxPumpSteps
  /\ pp' = [p EXCEPT !.steps = @ + 1]
  /\ UNCHANGED <<planVars, engineVars, pq, rt, ar, pr, br, sc, sg, ra, sl, tb>>

\* A step of the tracker's or the engine's own, which follows from the ones
\* before it.
PpFollow(p) ==
  /\ pp' = p
  /\ UNCHANGED <<planVars, engineVars, pq, rt, ar, pr, br, sc, sg, ra, sl, tb>>

\* main.ts: progressTracker.start()
PpStart ==
  /\ ~pp.isRunning
  /\ PpStep(IF PumpActive(pp) # {}
            THEN startInterval([pp EXCEPT !.isRunning = TRUE], "start")
            ELSE [pp EXCEPT !.isRunning = TRUE])

\* addDownload: the row is inserted pending and download-added is emitted.
PpAdd(id) ==
  /\ pp.isRunning /\ pp.dl[id] = "none"
  /\ PpStep(onDownloadsChanged([pp EXCEPT !.dl[id] = "pending"], "added"))

\* The queue task's startDownload: the ActiveDownload enters the map.
PpBegin(id) ==
  /\ pp.dl[id] = "pending"
  /\ PpStep([pp EXCEPT !.dl[id] = "active"])

\* pauseDownload (kind paused) and startDownload's catch (kind error): the
\* event is emitted, then cleanupActiveDownload deletes the map entry, at
\* once without an fd and after closeFile with one.
PpEnd(id, kind, fd) ==
  /\ pp.dl[id] = "active"
  /\ PpStep(onInactive([pp EXCEPT !.dl[id] = IF fd THEN "closing-" \o kind ELSE kind]))

\* closeFile returns in cleanupActiveDownload: the map entry is deleted.
PpClosed(id) ==
  /\ pp.dl[id] \in {"closing-paused", "closing-error"}
  /\ PpFollow([pp EXCEPT !.dl[id] = IF @ = "closing-paused" THEN "paused" ELSE "error"])

\* The completion path: download-complete is emitted and the entry deleted.
PpComplete(id) ==
  /\ pp.dl[id] = "active"
  /\ PpStep(onInactive([pp EXCEPT !.dl[id] = "completed"]))

\* The resume command: the queue's task calls startDownload, with no event
\* of the tracker's (resumeDownload, which emits download-resumed, has no
\* caller).
PpResume(id) ==
  /\ pp.dl[id] = "paused"
  /\ PpStep([pp EXCEPT !.dl[id] = "active"])

\* retryDownload: startDownload, with no event of the tracker's.
PpRetry(id) ==
  /\ pp.dl[id] = "error"
  /\ PpStep([pp EXCEPT !.dl[id] = "active"])

\* The deferred check runs.
PpCheckIdle ==
  /\ pp.checks > 0
  /\ PpFollow(checkIdle([pp EXCEPT !.checks = @ - 1]))

\* The window is shown or hidden: adjustInterval replaces a running timer.
PpVisibility ==
  /\ pp.isRunning
  /\ PpStep(adjustInterval([pp EXCEPT !.isWindowVisible = ~@]))

PumpInit ==
  /\ PlanIdle
  /\ QueueIdle
  /\ RetryIdle
  /\ AutoRetryIdle
  /\ BridgeIdle
  /\ SchedIdle
  /\ PumpIdle
  /\ SegIdle
  /\ ResumeAllIdle
  /\ SlotIdle
  /\ BucketIdle
  /\ ProbeIdle
  /\ EngineIdle
  /\ env = [cmds |-> 0, faults |-> 0, fires |-> 0, ids |-> {}]
  /\ settings = [autoRetryFailed |-> FALSE, maxRetries |-> AutoMaxRetries,
                 maxConcurrentDownloads |-> MaxConcurrent]

PumpNext ==
  \/ PpStart
  \/ \E id \in Ids : PpAdd(id)
  \/ \E id \in Ids : PpBegin(id)
  \/ \E id \in Ids : \E kind \in {"paused", "error"} : \E fd \in BOOLEAN : PpEnd(id, kind, fd)
  \/ \E id \in Ids : PpClosed(id)
  \/ \E id \in Ids : PpComplete(id)
  \/ \E id \in Ids : PpResume(id)
  \/ \E id \in Ids : PpRetry(id)
  \/ PpCheckIdle
  \/ PpVisibility

SpecPump == PumpInit /\ [][PumpNext]_vars

\* The tracker's own timeouts run and closeFile returns; how long a download
\* stays active, and what the user does, is left open.
SpecPumpLive ==
  SpecPump /\ WF_vars(PpCheckIdle) /\ WF_vars(\E id \in Ids : PpClosed(id))

\* -------------------------------------------------- the fetchers on their own
\* One resumable download of known length, its persisted segment rows (rows),
\* the engine's live view (infos = active.segmentInfos) and its fetchers
\* (fetch = active.segments), with the server free to answer 206 or 200 and to
\* send a body of any length, in chunks of one byte. A fetcher is at the
\* request (req), in the body (body), asleep between attempts (sleep),
\* resolved (done) or rejected (failed). writes is every write issued, as
\* <<segment index, offset>>; done[i] is the number of bytes of segment i
\* written and counted since its row was created (a write that lands after
\* the pause that stopped its fetcher is not counted: the row was persisted
\* without it); landed is the set of offsets of the file written so far; gen counts the times the rows were deleted and created anew.
SegLayouts == {<<2, 1>>, <<4, 2>>}

\* new SegmentDownloader(segInfo, ...): its own copy of the segment.
SegmentDownloader(seg) ==
  [index |-> seg.index, startByte |-> seg.startByte, endByte |-> seg.endByte,
   downloadedBytes |-> seg.downloadedBytes, status |-> seg.status,
   paused |-> FALSE, st |-> "new", attempt |-> 0, writeOffset |-> 0, inflight |-> <<>>,
   code |-> 0, sent |-> 0, reqFrom |-> 0, reqTo |-> 0]

\* The engine's 'complete' listener: the live view, then updateSegment.
SgOnComplete(g, index) ==
  LET g1 == [g EXCEPT !.infos[index + 1].status = "completed"] IN
  [g1 EXCEPT !.rows[index + 1].status = "completed",
             !.rows[index + 1].downloadedBytes = g1.infos[index + 1].downloadedBytes]

\* A request that always starts at the segment's first byte.
requestStartByteFresh(f) == f.startByte

\* const startByte = this.segment.startByte + this.segment.downloadedBytes
requestStartByte(f) == f.startByte + f.downloadedBytes

\* downloadSegment up to the request: Range: bytes=startByte-endByte.
SgDownloadSegment(g, k) ==
  LET f == g.fetch[k]
      startByte == requestStartByte(f)
  IN IF f.paused THEN [g EXCEPT !.fetch[k].st = "done"]
     ELSE IF startByte > f.endByte
          THEN SgOnComplete([g EXCEPT !.fetch[k].status = "completed",
                                      !.fetch[k].st = "done"], f.index)
          ELSE [g EXCEPT !.fetch[k].status = "active", !.fetch[k].st = "req",
                         !.fetch[k].code = 0, !.fetch[k].sent = 0,
                         !.fetch[k].reqFrom = startByte, !.fetch[k].reqTo = f.endByte]

RECURSIVE SgStartAll(_, _)
SgStartAll(g, k) ==
  IF k > Len(g.fetch) THEN g ELSE SgStartAll(SgDownloadSegment(g, k), k + 1)

\* withRetry's catch in a fetcher: throw on the last attempt, else sleep.
SgCatch(g, k) ==
  IF g.fetch[k].st \in {"done", "failed"} THEN g
  ELSE IF g.fetch[k].attempt >= FetchMaxRetries THEN [g EXCEPT !.fetch[k].st = "failed"]
  ELSE [g EXCEPT !.fetch[k].st = "sleep", !.fetch[k].attempt = @ + 1]

\* Promise.all over the fetchers and what follows it: the first rejection
\* reaches the catch blocks (the fd is closed, status error; the rows are
\* left as they are and no fetcher is told to stop); when all have resolved and the download is still downloading, it is
\* completed.
SgCheckAll(g) ==
  IF g.settled THEN g
  ELSE IF \E k \in 1..Len(g.fetch) : g.fetch[k].st = "failed"
       THEN [g EXCEPT !.settled = TRUE, !.status = "error", !.fdOpen = FALSE]
  ELSE IF \A k \in 1..Len(g.fetch) : g.fetch[k].st = "done"
       THEN [g EXCEPT !.settled = TRUE,
                      !.status = IF @ = "downloading" THEN "completed" ELSE @,
                      !.fdOpen = IF g.status = "downloading" THEN FALSE ELSE @]
  ELSE g

\* startMultiSegmentDownload: the rows found (a resume) or created, the live
\* view, one fetcher per incomplete segment, each started.
SgSession(g) ==
  LET isResume == Len(g.rows) > 0
      segmentInfos == IF isResume THEN g.rows ELSE createSegments(g.totalSize, g.threads)
      incompleteSegments == SelectSeq(segmentInfos, Incomplete)
      g1 == [g EXCEPT !.status = "downloading", !.settled = FALSE, !.fdOpen = TRUE,
                      !.landed = IF isResume THEN @ ELSE {},
                      !.rows = segmentInfos, !.infos = segmentInfos,
                      !.done = IF isResume THEN @ ELSE [j \in 1..Len(segmentInfos) |-> 0],
                      !.fetch = [k \in 1..Len(incompleteSegments) |->
                                   SegmentDownloader(incompleteSegments[k])]]
  IN SgCheckAll(SgStartAll(g1, 1))

SgStep(g) ==
  /\ sg.steps < MaxSegSteps
  /\ sg' = [g EXCEPT !.steps = @ + 1]
  /\ UNCHANGED <<planVars, engineVars, pq, rt, ar, pr, br, sc, pp, ra, sl, tb>>

\* startDownload of the pending download.
SgStart ==
  /\ sg.status = "pending"
  /\ SgStep(SgSession(sg))

\* The response of fetcher k arrives: 206 and 200 are both taken, and the
\* body is written from the offset the request asked for.
SgResponse(k, statusCode) ==
  /\ k \in 1..Len(sg.fetch) /\ sg.fetch[k].st = "req"
  /\ statusCode \in {206, 200}
  /\ SgStep([sg EXCEPT !.fetch[k].st = "body", !.fetch[k].code = statusCode,
                       !.fetch[k].writeOffset = sg.fetch[k].reqFrom])

\* A chunk arrives at fetcher k: paused, the response is destroyed and the
\* attempt resolves; else writeAtOffset is called at writeOffset, which moves
\* on only when a write returns.
SgData(k) ==
  /\ k \in 1..Len(sg.fetch)
  /\ LET f == sg.fetch[k] IN
       /\ f.st = "body" /\ f.sent < MaxBody /\ Len(f.inflight) < MaxInflight
       /\ IF f.paused
          THEN SgStep(SgCheckAll([sg EXCEPT !.fetch[k].st = "done"]))
          ELSE SgStep([sg EXCEPT !.fetch[k].inflight = Append(@, f.writeOffset),
                                !.fetch[k].sent = @ + 1,
                                !.writes = @ \cup {<<f.index, f.writeOffset>>}])

\* A write of fetcher k returns: writeOffset and downloadedBytes move on, and
\* the engine's 'progress' listener updates the live view.
SgWritten(k) ==
  /\ k \in 1..Len(sg.fetch)
  /\ LET f == sg.fetch[k] IN
       /\ f.inflight # <<>>
       /\ SgStep([sg EXCEPT !.fetch[k].inflight = Tail(@),
                            !.landed = @ \cup {Head(f.inflight)},
                            !.fetch[k].writeOffset = @ + 1,
                            !.fetch[k].downloadedBytes = @ + 1,
                            !.infos[f.index + 1].downloadedBytes = f.downloadedBytes + 1,
                            !.infos[f.index + 1].status = "active",
                            !.done[f.index + 1] = IF f.paused THEN @ ELSE @ + 1])

\* A write of fetcher k fails on the closed fd: the handler's catch destroys
\* the response and rejects the attempt.
SgWriteFailed(k) ==
  /\ k \in 1..Len(sg.fetch)
  /\ ~sg.fdOpen /\ sg.status # "pending"
  /\ sg.fetch[k].inflight # <<>>
  /\ SgStep(SgCheckAll(SgCatch([sg EXCEPT !.fetch[k].inflight = Tail(@)], k)))

\* The response of fetcher k ends.
SgEnd(k) ==
  /\ k \in 1..Len(sg.fetch)
  /\ LET f == sg.fetch[k] IN
       /\ f.st = "body"
       /\ IF f.paused
          THEN SgStep(SgCheckAll([sg EXCEPT !.fetch[k].st = "done"]))
          ELSE SgStep(SgCheckAll(
                 SgOnComplete([sg EXCEPT !.fetch[k].status = "completed",
                                         !.fetch[k].st = "done"], f.index)))

\* The request or the response of fetcher k errors.
SgError(k) ==
  /\ k \in 1..Len(sg.fetch)
  /\ sg.fetch[k].st \in {"req", "body"}
  /\ SgStep(SgCheckAll(SgCatch(sg, k)))

\* withRetry's sleep ends (at least a second after the attempt failed, so
\* after its writes have returned): the next attempt.
SgWake(k) ==
  /\ k \in 1..Len(sg.fetch)
  /\ sg.fetch[k].st = "sleep" /\ sg.fetch[k].inflight = <<>>
  /\ SgStep(SgCheckAll(SgDownloadSegment(sg, k)))

\* pauseDownload: every fetcher is paused, then the rows are written from
\* the fetcher found at position s.index of active.segments, or from the
\* live view when there is none at that position.
SgPause ==
  /\ sg.status = "downloading"
  /\ LET fetch == [k \in 1..Len(sg.fetch) |->
                     [sg.fetch[k] EXCEPT !.paused = TRUE, !.status = "paused"]]
         batch == [j \in 1..Len(sg.infos) |->
                     IF sg.infos[j].index + 1 \in 1..Len(fetch)
                     THEN segmentInfo(fetch[sg.infos[j].index + 1]) ELSE sg.infos[j]]
         Last(i) == CHOOSE j \in 1..Len(batch) :
                      /\ batch[j].index = i
                      /\ \A m \in (j + 1)..Len(batch) : batch[m].index # i
         rows == [j \in 1..Len(sg.rows) |->
                    IF \E m \in 1..Len(batch) : batch[m].index = j - 1
                    THEN [sg.rows[j] EXCEPT
                            !.downloadedBytes = batch[Last(j - 1)].downloadedBytes,
                            !.status = batch[Last(j - 1)].status]
                    ELSE sg.rows[j]]
     IN SgStep([sg EXCEPT !.fetch = fetch, !.rows = rows, !.status = "paused",
                          !.fdOpen = FALSE])

\* The resume command: the queue's task calls startDownload (it returns at
\* once for a download in status error), which finds the rows of the pause.
SgResume ==
  /\ sg.status = "paused"
  /\ SgStep(SgSession(sg))

\* retryDownload: the rows are deleted and the download starts afresh.
SgRetry ==
  /\ sg.status = "error"
  /\ SgStep(SgSession([sg EXCEPT !.rows = <<>>, !.gen = @ + 1]))

SegInit ==
  /\ PlanIdle
  /\ QueueIdle
  /\ RetryIdle
  /\ AutoRetryIdle
  /\ BridgeIdle
  /\ SchedIdle
  /\ PumpIdle
  /\ ResumeAllIdle
  /\ SlotIdle
  /\ BucketIdle
  /\ ProbeIdle
  /\ EngineIdle
  /\ env = [cmds |-> 0, faults |-> 0, fires |-> 0, ids |-> {}]
  /\ settings = [autoRetryFailed |-> FALSE, maxRetries |-> AutoMaxRetries,
                 maxConcurrentDownloads |-> MaxConcurrent]
  /\ \E layout \in SegLayouts :
       sg = [NoSegs EXCEPT !.totalSize = layout[1], !.threads = layout[2],
                           !.status = "pending"]

SegNext ==
  \/ SgStart
  \/ \E k \in 1..2 : \E statusCode \in {206, 200} : SgResponse(k, statusCode)
  \/ \E k \in 1..2 : SgData(k)
  \/ \E k \in 1..2 : SgWritten(k)
  \/ \E k \in 1..2 : SgWriteFailed(k)
  \/ \E k \in 1..2 : SgEnd(k)
  \/ \E k \in 1..2 : SgError(k)
  \/ \E k \in 1..2 : SgWake(k)
  \/ SgPause
  \/ SgResume
  \/ SgRetry

SpecSeg == SegInit /\ [][SegNext]_vars

\* ------------------------------------------------------ resumeAll on its own
\* QueueManager.resumeAll over the p-queue: the downloads are paused or
\* completed rows, the p-queue is paused (after pauseAll) or not. queue,
\* pending, paused and starts are the p-queue's, as in queue admission;
\* targets are the downloads found paused, enqueued those resumeAll has
\* passed to enqueue, loop the rest of its for loop, awaiting the download
\* whose enqueue it is awaiting.
\* getDownloadsByStatus: ORDER BY created_at DESC (q1 is the oldest).
RaOrder == <<"q3", "q2", "q1">>

\* The tasks the p-queue has started call startDownload: status downloading.
RaRun(r) ==
  [r EXCEPT !.status = [id \in QIds |-> IF id \in QActive(r) THEN "downloading"
                                         ELSE r.status[id]]]

\* The for loop of resumeAll from its next item: await this.enqueue(item.id,
\* item.priority), where enqueue returns at once for an active id and else
\* awaits queue.add, which resolves when the task has run to its end.
RECURSIVE RaLoop(_, _)
RaLoop(r, concurrency) ==
  IF r.loop = <<>> THEN [r EXCEPT !.awaiting = "none", !.returned = TRUE]
  ELSE LET id == Head(r.loop)
           r1 == [r EXCEPT !.loop = Tail(@), !.enqueued = @ \cup {id}]
           e == [id |-> id, priority |-> priorityToNumber(r.priority[id]), n |-> r.n + 1]
       IN IF id \in QActive(r) THEN RaLoop(r1, concurrency)
          ELSE RaRun(tryToStartAnother(
                 [r1 EXCEPT !.n = @ + 1, !.queue = PQEnqueue(@, e), !.awaiting = id],
                 concurrency))

RaUnchanged == UNCHANGED <<planVars, engineVars, pq, rt, ar, pr, br, sc, pp, sg, sl, tb>>

\* resumeAll(): queue.start(), the paused rows, the loop up to its first await.
RaResumeAll ==
  /\ ~ra.called
  /\ LET pausedDownloads == SelectSeq(RaOrder, LAMBDA id : ra.status[id] = "paused")
         r == tryToStartAnother([ra EXCEPT !.called = TRUE, !.paused = FALSE],
                                settings.maxConcurrentDownloads)
     IN ra' = RaLoop([r EXCEPT !.loop = pausedDownloads,
                               !.targets = {pausedDownloads[j] : j \in 1..Len(pausedDownloads)}],
                     settings.maxConcurrentDownloads)
  /\ RaUnchanged

\* The startDownload call of a running task settles (the download completed,
\* failed or was paused): the slot is freed, queue.add resolves, and a
\* resumeAll that was awaiting it goes on with its loop.
RaSettle(e, outcome) ==
  /\ e \in ra.pending
  /\ LET r == RaRun(tryToStartAnother(
                 [ra EXCEPT !.pending = @ \ {e}, !.status[e.id] = outcome],
                 settings.maxConcurrentDownloads))
     IN ra' = IF ra.awaiting = e.id THEN RaLoop(r, settings.maxConcurrentDownloads) ELSE r
  /\ RaUnchanged

ResumeAllInit ==
  /\ SlotIdle
  /\ BucketIdle
  /\ PlanIdle
  /\ QueueIdle
  /\ RetryIdle
  /\ AutoRetryIdle
  /\ BridgeIdle
  /\ SchedIdle
  /\ PumpIdle
  /\ SegIdle
  /\ ProbeIdle
  /\ EngineIdle
  /\ env = [cmds |-> 0, faults |-> 0, fires |-> 0, ids |-> {}]
  /\ settings \in [autoRetryFailed : {FALSE}, maxRetries : {AutoMaxRetries},
                 maxConcurrentDownloads : 1..MaxQueueConcurrent]
  /\ \E status \in [QIds -> {"paused", "completed"}] :
     \E priority \in [QIds -> {"high", "normal"}] :
     \E paused \in BOOLEAN :
       ra = [NoResumeAll EXCEPT !.status = status, !.priority = priority, !.paused = paused]

ResumeAllNext ==
  \/ RaResumeAll
  \/ \E e \in ra.pending : \E outcome \in {"completed", "paused", "error"} : RaSettle(e, outcome)

SpecResumeAll == ResumeAllInit /\ [][ResumeAllNext]_vars

\* C11: within a lifetime (from add to remove) a download's downloadedBytes,
\* the persisted value and the value progress snapshots report, never
\* decreases from one observation to the next, except across a retry (the
\* retry's step, and for the snapshots the start of the retry's session).
C11_ProgressMonotone ==
  [][\A id \in Ids :
       \/ db[id].status = "absent" \/ db'[id].status = "absent"
       \/ RetryStep(id)'
       \/ /\ db'[id].downloadedBytes >= db[id].downloadedBytes
          /\ \/ hist'.snap[id] >= hist.snap[id]
             \/ RetrySessionRegistered(id)]_vars

ClaimedRetryable(statusCode) ==
  statusCode \in {408, 429} \/ (statusCode >= 500 /\ statusCode < 600)
ClaimedNonRetryable(statusCode) ==
  statusCode >= 400 /\ statusCode < 500 /\ statusCode \notin {408, 429}

\* The Retry-After of a response in ms, at time now.
ClaimedRetryAfter(response, now) ==
  IF response.retryAfter.form = "seconds" THEN response.retryAfter.v * 1000
  ELSE IF response.retryAfter.v > now THEN response.retryAfter.v - now ELSE 0

\* C13: when a segment GET is answered with a retryable status that carries
\* Retry-After (seconds or HTTP-date), the fetcher waits at least the
\* Retry-After value before its next attempt (2000 ms after a 429 with
\* Retry-After: 2).
C13_RetryAfterHonoured ==
  (/\ rt.pc = "sleep"
   /\ ClaimedRetryable(rt.lastResponse.statusCode)
   /\ rt.lastResponse.retryAfter.form # "none")
    => rt.delays[Len(rt.delays)]
         >= ClaimedRetryAfter(rt.lastResponse, RSum(SubSeq(rt.delays, 1, Len(rt.delays) - 1)))

\* The run has ended: withRetry returned or threw.
RtDone == rt.pc \in {"returned", "thrown"}

RtSafe ==
  /\ rt.calls <= rt.cfg.maxRetries + 1
  /\ Len(rt.delays) = (IF rt.pc = "sleep" THEN rt.calls ELSE rt.calls - 1)
  /\ \A k \in 1..Len(rt.delays) :
       rt.delays[k] = calculateRetryDelay(k - 1, rt.cfg, rt.rand[k])
  /\ rt.pc = "sleep" =>
       /\ ~ClaimedNonRetryable(rt.lastError.statusCode)
       /\ rt.calls <= rt.cfg.maxRetries
  /\ rt.pc = "thrown" =>
       /\ rt.thrown = rt.lastError
       /\ ClaimedNonRetryable(rt.lastError.statusCode) \/ rt.calls = rt.cfg.maxRetries + 1

ClaimedBase(k, config) ==
  IF config.initialDelay * Pow(config.backoffFactor, k) <= config.maxDelay
  THEN config.initialDelay * Pow(config.backoffFactor, k) ELSE config.maxDelay

RECURSIVE ClaimedBound4(_, _)
ClaimedBound4(n, config) ==
  IF n = 0 THEN 0 ELSE ClaimedBase(n - 1, config) * 5 + ClaimedBound4(n - 1, config)

ClaimedAutoDelay(k) == IF 5000 * 2^k <= 60000 THEN 5000 * 2^k ELSE 60000

\* The last step handled a download-error: it armed at most one timer, none
\* with autoRetryFailed off, and the timer's delay is the k-th one.
AutoRetryLast(k) ==
  ar.last.id # "none" =>
    /\ ar.last.armed <= 1
    /\ ~settings.autoRetryFailed => ar.last.armed = 0
    /\ ar.last.armed = 1 => ar.last.delay = ClaimedAutoDelay(k)

\* C17 as claimed: with autoRetryFailed on, each download-error for an id
\* schedules at most one retry, the k-th consecutive one after
\* min(5000 * 2^k, 60000) ms, and at most maxRetries retries are scheduled for
\* an id until its count is cleared by a success or an explicit removal; with
\* autoRetryFailed off no retry is scheduled.
C17_ClearedBySuccessOrRemoval ==
  /\ AutoRetryLast(ar.last.since)
  /\ \A id \in Ids : ar.since[id] <= settings.maxRetries

\* C17: with autoRetryFailed on, each download-error for an id schedules at
\* most one retry, the k-th consecutive one after min(5000 * 2^k, 60000) ms,
\* and at most maxRetries retries are scheduled for an id until its count is
\* cleared by a success, a cancel or the download-error that finds maxRetries
\* retries counted (and schedules none); with autoRetryFailed off no retry is
\* scheduled.
C17_AutoRetry ==
  /\ AutoRetryLast(ar.last.run)
  /\ \A id \in Ids : ar.run[id] <= settings.maxRetries

\* A download-error has armed a timer at the 60 s cap.
C17_Witness == ar.last.armed = 1 /\ ar.last.run >= 4 /\ ar.last.delay = 60000

\* C18: resumable is true iff the server advertised byte-range support and a
\* length > 0: a probe answer with Content-Length > 0 and no Accept-Ranges
\* header yields resumable = false, threads = 1 and the single-connection path
\* at start.
C18_ResumableIffAdvertised ==
  (pr.pc \in {"pending", "started"} /\ pr.res.statusCode = 200) =>
    /\ pr.item.resumable <=> (pr.res.acceptRanges = "bytes" /\ pr.res.contentLength > 0)
    /\ (pr.res.contentLength > 0 /\ pr.res.acceptRanges = "absent") =>
         /\ ~pr.item.resumable /\ pr.item.threads = 1
         /\ pr.pc = "started" => pr.path = "single"

\* C19: every request chain (the HEAD probe, each segment GET, the
\* single-connection GET) follows at most 10 redirects and then terminates,
\* even against a server that redirects forever; the probe then fails open to
\* {totalSize: 0, supportsRange: false}.
C19_RedirectLimit ==
  /\ pr.requests <= 1 + 10
  /\ (pr.kind = "probe" /\ pr.redirectCount > 10) =>
       pr.pc # "request" /\ pr.result = FailOpen

\* C20: for every frame received on the ingress endpoint, the bridge invokes
\* engine.add then queue.enqueue and eventually writes back exactly one reply
\* frame and closes the connection, whatever the state of the queue at that
\* time (slots free, all slots busy, queue paused).
C20_ReplyAndClose ==
  /\ [](Len(br.replies) <= 1)
  /\ [](br.pc # "idle" => <>(Len(br.replies) = 1 /\ br.conn = "closed"))

\* C21: if the endpoint name is already in use when the bridge starts, it
\* probes the endpoint: when the probe shows the endpoint is stale (the
\* connect fails) the bridge eventually ends up listening on the endpoint;
\* when the probe connects (a live instance), the bridge does not replace it.
C21_StaleReplaced ==
  /\ [](br.spc = "retryTimer" => <>br.listening)
  /\ [](br.spc = "other-instance" => ~br.listening)

\* C22: setPriority(id, p) updates the stored priority and reorders the
\* pending queue entry: a waiting download whose priority is raised above that
\* of other waiting downloads is started before them even if they were
\* enqueued earlier, and one whose priority is lowered is started after them.
C22_SetPriorityReorders ==
  \A st \in pq.starts : \A k \in 1..Len(st.waiting) :
    st.waiting[k].id # st.task.id =>
      pq.priority[st.waiting[k].id] <= pq.priority[st.task.id]

\* C23: cancelShutdown() aborts any pending shutdown: after it is called, no
\* OS shutdown command is issued as a result of an auto-shutdown schedule that
\* fired before the call, whether its watcher is still polling the download or
\* its 60 s grace timer is already running.
C23_CancelShutdownAborts == sc.cancelled => sc.shutdowns = sc.atCancel

\* The delay the last setTimer call armed (Null: none) is the claimed one, a
\* schedule in the past counting as recent while now - S is within `recent`.
ClaimedTimer(recent) ==
  sc.set.delay # -1 \/ sc.pc = "armed" =>
    LET S == sc.set.scheduledTime
        now == sc.set.now
        interval == IF sc.set.repeat = "daily" THEN 86400000 ELSE 7 * 86400000
    IN IF S > now THEN sc.set.delay = S - now
       ELSE IF now - S \in recent THEN sc.set.delay = 0
       ELSE IF sc.set.repeat = "none" THEN sc.set.delay = -1
       ELSE \E k \in 1..8 :
              /\ sc.set.delay = S + k * interval - now
              /\ S + k * interval > now /\ S + (k - 1) * interval <= now

C25_PumpActivityGated ==
  /\ pp.live <= 1
  /\ pp.startedBy \in {"none", "added", "resumed"}
  /\ (pp.live > 0 /\ pp.checks = 0) => PumpActive(pp) # {}

\* C26: every write issued by the fetcher of segment i lands inside
\* [startByte_i, endByte_i], whatever the status (206 or 200) and however many
\* body bytes the server sends, and a segment's downloadedBytes stays within
\* [0, endByte - startByte + 1].
C26_WritesInsideSegment ==
  /\ \A wr \in sg.writes :
       wr[2] \in sg.rows[wr[1] + 1].startByte .. sg.rows[wr[1] + 1].endByte
  /\ \A k \in 1..Len(sg.fetch) :
       sg.fetch[k].downloadedBytes \in 0..(sg.fetch[k].endByte - sg.fetch[k].startByte + 1)
  /\ \A j \in 1..Len(sg.rows) :
       sg.rows[j].downloadedBytes \in 0..(sg.rows[j].endByte - sg.rows[j].startByte + 1)

\* C27: a fetcher accepts a 200 response only when its segment is the
\* download's sole segment: with more than one segment no fetcher is ever in
\* the body of a 200 response, and none of its body is written.
C27_OkOnlyForSoleSegment ==
  \A k \in 1..Len(sg.fetch) :
    (sg.fetch[k].code = 200 /\ Len(sg.rows) > 1) =>
      /\ sg.fetch[k].st # "body"
      /\ sg.fetch[k].sent = 0

FetcherStatus(g, i) ==
  IF \E k \in 1..Len(g.fetch) : g.fetch[k].index = i
  THEN g.fetch[CHOOSE k \in 1..Len(g.fetch) : g.fetch[k].index = i].status
  ELSE "none"

LiveStatus(g, i) == IF i + 1 \in 1..Len(g.infos) THEN g.infos[i + 1].status ELSE "none"

RowStatus(g, i) == IF i + 1 \in 1..Len(g.rows) THEN g.rows[i + 1].status ELSE "none"

SegMoves ==
  {<<"pending", "active">>, <<"active", "paused">>, <<"active", "completed">>,
   <<"active", "error">>, <<"paused", "active">>, <<"error", "active">>}

\* One step of a view that is written at every change (the fetcher) and of a
\* view that is written only now and then (the live view, the row), which may
\* show several of the moves at once.
MoveSeen(a, b) == a = b \/ a = "none" \/ b = "none" \/ <<a, b>> \in SegMoves

MovesSeen(a, b) == a = b \/ a = "none" \/ b = "none" \/ (a # "completed" /\ b # "pending")

\* C28: a segment's status, in the fetcher, in the live view and in the
\* persisted row, only moves pending -> active, active -> paused | completed
\* | error, paused -> active and error -> active, and completed is absorbing:
\* as long as the rows are not deleted by retry, a completed segment's status
\* never changes again.
C28_SegmentStatusMachine ==
  [][sg'.gen = sg.gen =>
       \A i \in 0..1 :
         /\ MoveSeen(FetcherStatus(sg, i), FetcherStatus(sg', i))
         /\ MovesSeen(LiveStatus(sg, i), LiveStatus(sg', i))
         /\ MovesSeen(RowStatus(sg, i), RowStatus(sg', i))]_vars

C30_ResumeAllEnqueuesAll ==
  ra.called => ra.targets \subseteq ra.enqueued

\* C39: each download id has at most one task waiting in the queue: an
\* enqueue of an id that is already waiting adds no second task.
C39_OneWaitingTaskPerId ==
  \A i \in 1..Len(pq.queue) : \A j \in 1..Len(pq.queue) :
    pq.queue[i].id = pq.queue[j].id => i = j

\* C33: within one attempt of a fetcher the chunks are written at consecutive
\* offsets, also when a chunk arrives while the write of the one before it is
\* in flight: no two chunks of a fetcher are written at the same offset.
C33_ConsecutiveOffsets ==
  \A k \in 1..Len(sg.fetch) :
    \A i \in 1..Len(sg.fetch[k].inflight) : \A j \in 1..Len(sg.fetch[k].inflight) :
      sg.fetch[k].inflight[i] = sg.fetch[k].inflight[j] => i = j

\* C34: a segment is marked completed only when its downloadedBytes equals
\* endByte - startByte + 1, and the download reaches status completed only
\* if every byte of [0, totalSize - 1] has been written.
C34_CompletedMeansWritten ==
  /\ \A j \in 1..Len(sg.rows) :
       sg.rows[j].status = "completed" =>
         sg.rows[j].downloadedBytes = sg.rows[j].endByte - sg.rows[j].startByte + 1
  /\ sg.status = "completed" => 0..(sg.totalSize - 1) \subseteq sg.landed

\* C35: once a multi-segment download is in status error because a fetcher
\* failed (the fd closed), no fetcher of it issues another write or another
\* request, until a retry starts it afresh.
C35_OthersStopped ==
  [][(sg.status = "error" /\ sg'.gen = sg.gen) =>
       /\ sg'.writes = sg.writes
       /\ \A k \in 1..Len(sg.fetch) :
            sg'.fetch[k].st = "req" => sg.fetch[k].st = "req"]_vars

\* C40: while the progress pump is started and at least one download is
\* active, however it became active, the pump timer is eventually running.
C40_PumpRunsWhileActive ==
  (pp.isRunning /\ PumpActive(pp) # {}) ~> (pp.live > 0 \/ PumpActive(pp) = {})

\* C38: after removeSchedule(id) no timer is armed for the schedule and it
\* never triggers an enqueue again, also when it is removed while the fired
\* callback of a recurring schedule is awaiting queue.enqueue.
C38_RemovedStaysRemoved ==
  sc.removed => (sc.timer = Null /\ sc.fires = sc.atRemove)

\* C36: a download the user has cancelled is never started again without a
\* new user command: an auto-retry timer scheduled by an earlier
\* download-error does not restart it when it fires after the cancel.
C36_CancelledStaysCancelled ==
  \A id \in Ids : ar.cancelled[id] => ar.status[id] # "downloading"

\* C37: once pause(id) has returned with status paused, the status stays
\* paused until the next user command on the download: no late callback of
\* the paused session, and no auto-retry timer, changes it.
C37_PausedStaysPaused ==
  \A id \in hist.held : db[id].status = "paused"

\* ------------------------------------------------ the queue slot on its own
\* One slot of the p-queue, the task that holds it and the connection of the
\* start session the task awaits. sl.run is the id whose task holds the slot,
\* sl.pc the position of its session: "req" (request sent), "body" (response
\* being read), "sleep" (withRetry's delay), "dead" (the response is gone and
\* no handler is left to run), "idle" (no session).
SlUnchanged == UNCHANGED <<planVars, engineVars, pq, rt, ar, pr, br, sc, pp, sg, ra, tb>>

\* models.updateDownload(id, {status}): no row, no write.
SlWrite(s, id, status) ==
  IF s.status[id] = "absent" THEN s ELSE [s EXCEPT !.status[id] = status]

\* The queue's tasks while the slot is free: a task returns at once when the
\* row is gone, completed or failed, and startDownload returns at once for a
\* row that is downloading; else the task awaits startDownload.
RECURSIVE SlNext(_)
SlNext(s) ==
  IF s.run # "none" \/ s.queue = <<>> THEN s
  ELSE LET id == Head(s.queue)
           s1 == [s EXCEPT !.queue = Tail(@)] IN
       IF s.status[id] \in {"absent", "completed", "error", "downloading"} THEN SlNext(s1)
       ELSE [s1 EXCEPT !.status[id] = "downloading", !.run = id, !.pc = "req",
                       !.aStatus = "downloading", !.mapped = TRUE, !.stop = FALSE,
                       !.rx = 0, !.attempt = 0, !.started = @ + 1]

\* startDownload's promise settles: the task returns and the slot is free.
SlSettle(s) ==
  SlNext([s EXCEPT !.run = "none", !.pc = "idle", !.mapped = FALSE, !.settled = @ + 1])

\* startDownload's catch.
SlStartCatch(s) ==
  SlSettle(SlWrite([s EXCEPT !.aStatus = IF s.mapped THEN "error" ELSE @], s.run, "error"))

\* withRetry's catch around the fetcher's downloadSegment.
SlWithRetryCatch(s, retryable) ==
  IF s.attempt >= FetchMaxRetries \/ ~retryable THEN SlStartCatch(s)
  ELSE [s EXCEPT !.pc = "sleep", !.attempt = @ + 1]

\* startMultiSegmentDownload after its fetchers' promises resolved: return
\* when the live status is no longer downloading, fail on the closed fd, else
\* mark the download completed.
SlAfterAll(s) ==
  IF s.aStatus # "downloading" THEN SlSettle(s)
  ELSE IF s.stop THEN SlStartCatch(s)
  ELSE SlSettle(SlWrite([s EXCEPT !.aStatus = "completed"], s.run, "completed"))

\* QueueManager.enqueue
SlEnqueue(id) ==
  /\ sl.cmds < MaxSlotCmds
  /\ ~(sl.run = id /\ sl.mapped)
  /\ LET s1 == IF sl.status[id] = "pending" THEN SlWrite(sl, id, "queued") ELSE sl IN
     sl' = SlNext([s1 EXCEPT !.queue = Append(@, id), !.cmds = @ + 1])
  /\ SlUnchanged

\* DownloadEngine.pauseDownload on the running download.
SlPause(id) ==
  /\ sl.cmds < MaxSlotCmds
  /\ sl.run = id /\ sl.mapped
  /\ sl' = SlWrite([sl EXCEPT !.stop = TRUE, !.aStatus = "paused", !.mapped = FALSE,
                              !.cmds = @ + 1], id, "paused")
  /\ SlUnchanged

\* DownloadEngine.cancelDownload: without an fd the cleanup deletes the map
\* entry before setStatus; with one (the fetchers' path) it deletes it after
\* closeFile, so setStatus still writes the live status.
SlCancel(id) ==
  /\ sl.cmds < MaxSlotCmds
  /\ sl.status[id] # "absent"
  /\ LET s1 == IF sl.run = id /\ sl.mapped
               THEN [sl EXCEPT !.stop = TRUE, !.mapped = FALSE,
                               !.aStatus = IF sl.path[id] = "multi" THEN "error" ELSE @]
               ELSE sl IN
     sl' = SlWrite([s1 EXCEPT !.cmds = @ + 1], id, "error")
  /\ SlUnchanged

\* DownloadEngine.removeDownload
SlRemove(id) ==
  /\ sl.cmds < MaxSlotCmds
  /\ sl.status[id] # "absent"
  /\ LET s1 == IF sl.run = id /\ sl.mapped
               THEN [sl EXCEPT !.stop = TRUE, !.mapped = FALSE] ELSE sl IN
     sl' = [s1 EXCEPT !.cmds = @ + 1, !.status[id] = "absent"]
  /\ SlUnchanged

\* The response arrives with the status the path accepts (a fetcher whose
\* request was destroyed gets none).
SlResponse ==
  /\ sl.pc = "req"
  /\ ~(sl.path[sl.run] = "multi" /\ sl.stop)
  /\ sl' = [sl EXCEPT !.pc = "body"]
  /\ SlUnchanged

\* reject: another status code, the request's 'error' or its 'timeout',
\* a write error, the fetcher's stall timer.
SlReject(retryable) ==
  /\ sl.pc \in {"req", "body"}
  /\ sl' = IF sl.path[sl.run] = "single" THEN SlStartCatch(sl)
           ELSE SlWithRetryCatch(sl, retryable)
  /\ SlUnchanged

\* A chunk of the body: the 'data' handler.
SlData ==
  /\ sl.pc = "body" /\ sl.rx < SlotBody
  /\ sl' = IF sl.path[sl.run] = "single"
           THEN IF sl.aStatus # "downloading" THEN SlSettle(sl)
                ELSE [sl EXCEPT !.rx = @ + 1]
           ELSE IF sl.stop THEN SlAfterAll(sl) ELSE [sl EXCEPT !.rx = @ + 1]
  /\ SlUnchanged

\* The body ends: the pipe ends the write stream, whose 'finish' marks the
\* download completed; the fetcher's 'end' handler resolves.
SlEnd ==
  /\ sl.pc = "body" /\ sl.rx = SlotBody
  /\ sl' = IF sl.path[sl.run] = "single"
           THEN SlSettle(SlWrite([sl EXCEPT !.aStatus = "completed"], sl.run, "completed"))
           ELSE SlAfterAll(sl)
  /\ SlUnchanged

\* The server closes or resets the connection inside the body. The fetcher
\* has an 'error' handler on the response. The single connection has none,
\* neither for 'error' nor 'aborted' nor 'close', and the pipe ends the write
\* stream only on the response's 'end': nothing is left to run.
SlReset ==
  /\ sl.pc = "body" /\ sl.rx < SlotBody
  /\ sl' = IF sl.path[sl.run] = "single" THEN [sl EXCEPT !.pc = "dead"]
           ELSE SlWithRetryCatch(sl, TRUE)
  /\ SlUnchanged

\* withRetry's delay ends: downloadSegment again.
SlWake ==
  /\ sl.pc = "sleep"
  /\ sl' = IF sl.stop THEN SlAfterAll(sl) ELSE [sl EXCEPT !.pc = "req"]
  /\ SlUnchanged

SlotInit ==
  /\ PlanIdle
  /\ QueueIdle
  /\ RetryIdle
  /\ AutoRetryIdle
  /\ BridgeIdle
  /\ SchedIdle
  /\ PumpIdle
  /\ SegIdle
  /\ ResumeAllIdle
  /\ BucketIdle
  /\ ProbeIdle
  /\ EngineIdle
  /\ env = [cmds |-> 0, faults |-> 0, fires |-> 0, ids |-> {}]
  /\ settings = [autoRetryFailed |-> FALSE, maxRetries |-> AutoMaxRetries,
                 maxConcurrentDownloads |-> MaxConcurrent]
  /\ \E path \in [Ids -> {"single", "multi"}] : sl = [NoSlot EXCEPT !.path = path]

\* What the network and the timers do to the connection of the running task.
SlEvent ==
  \/ SlResponse
  \/ \E retryable \in BOOLEAN : SlReject(retryable)
  \/ SlData
  \/ SlEnd
  \/ SlReset
  \/ SlWake

SlotNext ==
  \/ \E id \in Ids : SlEnqueue(id)
  \/ \E id \in Ids : SlPause(id)
  \/ \E id \in Ids : SlCancel(id)
  \/ \E id \in Ids : SlRemove(id)
  \/ SlEvent

SpecSlot == SlotInit /\ [][SlotNext]_vars

\* A connection that has something to deliver (a response, a chunk, its end,
\* an error, a timeout) delivers it, and a pending delay ends.
SpecSlotLive == SpecSlot /\ WF_vars(SlEvent)

\* C31: every engine.startDownload call made by a queue task eventually
\* settles, so the slot it holds is eventually released: the n-th start is
\* followed by the n-th settle.
C31_StartSettles ==
  \A n \in 1..MaxSlotCmds : (sl.started = n) ~> (sl.settled = n)

\* ------------------------------------------- the token bucket on its own
\* The pacing of one response of a fetcher with speedLimit > 0. Time is
\* counted in ticks of 1/speedLimit second, so that the refill
\* speedLimit * elapsed is one token per tick and the wait
\* (chunk.length - tokenBucket) / speedLimit is chunk.length - tokenBucket
\* ticks. tb.written is the number of bytes written at each tick.
TbUnchanged == UNCHANGED <<planVars, engineVars, pq, rt, ar, pr, br, sc, pp, sg, ra, sl>>

\* writeAtOffset of a chunk of n bytes at the current tick.
TbWrite(b, n) == [b EXCEPT !.written[b.now] = @ + n]

\* Date.now() advances by one tick.
TbTick ==
  /\ tb.now < MaxTicks
  /\ tb' = [tb EXCEPT !.now = @ + 1]
  /\ TbUnchanged

\* The 'data' handler on a chunk of n bytes: refill by the time since
\* lastTokenRefill, capped at speedLimit; with too few tokens pause the stream
\* and sleep for the shortfall, else take the tokens and write.
TbChunk(n) ==
  /\ tb.pc = "idle" /\ tb.chunks < MaxChunks
  /\ LET elapsed == tb.now - tb.lastTokenRefill
         tokenBucket == Min(BucketLimit, tb.tokenBucket + elapsed)
         b1 == [tb EXCEPT !.lastTokenRefill = tb.now, !.tokenBucket = tokenBucket,
                          !.chunks = @ + 1, !.chunk = n, !.available = tokenBucket]
     IN tb' = IF tokenBucket < n
              THEN [b1 EXCEPT !.pc = "waiting", !.waited = TRUE, !.waitMs = n - tokenBucket,
                              !.wakeAt = tb.now + (n - tokenBucket)]
              ELSE TbWrite([b1 EXCEPT !.tokenBucket = @ - n, !.waited = FALSE,
                                      !.waitMs = 0], n)
  /\ TbUnchanged

\* The sleep ends (at its time or later): tokenBucket = chunk.length, the
\* stream resumes, the tokens are taken and the chunk is written.
\* lastTokenRefill keeps the time from before the sleep.
TbWake ==
  /\ tb.pc = "waiting" /\ tb.now >= tb.wakeAt
  /\ tb' = TbWrite([tb EXCEPT !.tokenBucket = tb.chunk - tb.chunk, !.pc = "idle"], tb.chunk)
  /\ TbUnchanged

BucketInit ==
  /\ PlanIdle
  /\ QueueIdle
  /\ RetryIdle
  /\ AutoRetryIdle
  /\ BridgeIdle
  /\ SchedIdle
  /\ PumpIdle
  /\ SegIdle
  /\ ResumeAllIdle
  /\ SlotIdle
  /\ ProbeIdle
  /\ EngineIdle
  /\ env = [cmds |-> 0, faults |-> 0, fires |-> 0, ids |-> {}]
  /\ settings = [autoRetryFailed |-> FALSE, maxRetries |-> AutoMaxRetries,
                 maxConcurrentDownloads |-> MaxConcurrent]
  /\ tb = NoBucket

BucketNext ==
  \/ TbTick
  \/ \E n \in 1..BucketLimit : TbChunk(n)
  \/ TbWake

SpecBucket == BucketInit /\ [][BucketNext]_vars

\* The bytes written in the ticks a..b.
RECURSIVE TbWritten(_, _)
TbWritten(a, b) == IF a > b THEN 0 ELSE tb.written[a] + TbWritten(a + 1, b)

\* A chunk is written without waiting iff the bucket holds its size in
\* tokens, else after a wait of the shortfall.
TbAdmission ==
  tb.chunks > 0 =>
    /\ tb.waited <=> tb.available < tb.chunk
    /\ tb.waited => tb.waitMs = tb.chunk - tb.available

\* After a chunk the token count is within 0..speedLimit.
TbRange == tb.pc = "idle" => tb.tokenBucket \in 0..BucketLimit

\* The bytes written in a window of T seconds (the ticks a..b, T =
\* (b - a) / speedLimit) are at most speedLimit + speedLimit * T.
TbRate ==
  \A a \in 0..MaxTicks : \A b \in a..MaxTicks :
    TbWritten(a, b) <= BucketLimit + (b - a)

\* C32: a paced fetcher writes a chunk at once iff the bucket holds enough
\* tokens and else after a wait of the shortfall over the limit; the token
\* count stays within [0, L] after every chunk; and the bytes written in any
\* window of T seconds never exceed L + L * T.
C32_TokenBucket == TbAdmission /\ TbRange /\ TbRate
====
